---- MODULE Spec2Model ----
(***************************************************************************)
(* Model of AvroParser (src/avrolib.py): the Avro phonetic transliterator. *)
(*                                                                         *)
(* A Python string is modelled as a sequence of characters and a character *)
(* as a one-character TLA+ string.  A character that cannot be written in  *)
(* a TLA+ string (the backtick, every non-ASCII character) is written by   *)
(* its code point: "u0060" is the backtick, "u0986" is BENGALI LETTER AA.  *)
(* cur, cur_end and every index are 0-based as in the source; T[i] of the  *)
(* source is T[i + 1] here.                                                *)
(*                                                                         *)
(* The pattern dicts are objects built once by init_data; the three lists  *)
(* PATTERNS, NON_RULE_PATTERNS and RULE_PATTERNS hold references to them.  *)
(* heap holds the dicts, a reference is the position of a dict in heap,    *)
(* and deref gives the dict a reference points to.                         *)
(*                                                                         *)
(* Spec and SpecCalls are calls of parse on the engine of the reference    *)
(* table.  SpecMatch is _process_match called by itself on a text, a       *)
(* pattern span and one predicate.  SpecOther starts inside __init__ of a  *)
(* derived class whose init_data builds another table.                     *)
(***************************************************************************)
EXTENDS Integers, Sequences, FiniteSets, TLC

\* Longest raw input built from Alphabet.
MaxLen == 3

\* Longest raw input of the runs that remember an earlier call.
MaxCallLen == 2

\* The characters raw inputs are built from.
Alphabet == {"a", "u0060", "k", "r", " ", "u00C9", "u0130", "uD800"}

\* Longest text _process_match is called on by itself.
MaxMatchLen == 3

\* The characters of these texts: a vowel, a consonant, a punctuation.
MatchAlphabet == {"a", "k", " "}

\* The characters of the raw inputs of the runs that remember a call.
CallAlphabet == {"a", "u0060", "k", "r"}

\* self.data as built by init_data.
data ==
  [PATTERNS |->
     << [find |-> <<"b", "h", "l">>, replace |-> <<"u09AD", "u09CD", "u09B2">>],
        [find |-> <<"p", "s", "h">>, replace |-> <<"u09AA", "u09B6">>],
        [find |-> <<"b", "d", "h">>, replace |-> <<"u09AC", "u09CD", "u09A7">>],
        [find |-> <<"b", "j">>, replace |-> <<"u09AC", "u09CD", "u099C">>],
        [find |-> <<"b", "d">>, replace |-> <<"u09AC", "u09CD", "u09A6">>],
        [find |-> <<"b", "b">>, replace |-> <<"u09AC", "u09CD", "u09AC">>],
        [find |-> <<"b", "l">>, replace |-> <<"u09AC", "u09CD", "u09B2">>],
        [find |-> <<"b", "h">>, replace |-> <<"u09AD">>],
        [find |-> <<"v", "l">>, replace |-> <<"u09AD", "u09CD", "u09B2">>],
        [find |-> <<"b">>, replace |-> <<"u09AC">>],
        [find |-> <<"v">>, replace |-> <<"u09AD">>],
        [find |-> <<"c", "N", "G">>, replace |-> <<"u099A", "u09CD", "u099E">>],
        [find |-> <<"c", "c", "h">>, replace |-> <<"u099A", "u09CD", "u099B">>],
        [find |-> <<"c", "c">>, replace |-> <<"u099A", "u09CD", "u099A">>],
        [find |-> <<"c", "h">>, replace |-> <<"u099B">>],
        [find |-> <<"c">>, replace |-> <<"u099A">>],
        [find |-> <<"d", "h", "n">>, replace |-> <<"u09A7", "u09CD", "u09A8">>],
        [find |-> <<"d", "h", "m">>, replace |-> <<"u09A7", "u09CD", "u09AE">>],
        [find |-> <<"d", "g", "h">>, replace |-> <<"u09A6", "u09CD", "u0998">>],
        [find |-> <<"d", "d", "h">>, replace |-> <<"u09A6", "u09CD", "u09A7">>],
        [find |-> <<"d", "b", "h">>, replace |-> <<"u09A6", "u09CD", "u09AD">>],
        [find |-> <<"d", "v">>, replace |-> <<"u09A6", "u09CD", "u09AD">>],
        [find |-> <<"d", "m">>, replace |-> <<"u09A6", "u09CD", "u09AE">>],
        [find |-> <<"D", "D">>, replace |-> <<"u09A1", "u09CD", "u09A1">>],
        [find |-> <<"D", "h">>, replace |-> <<"u09A2">>],
        [find |-> <<"d", "h">>, replace |-> <<"u09A7">>],
        [find |-> <<"d", "g">>, replace |-> <<"u09A6", "u09CD", "u0997">>],
        [find |-> <<"d", "d">>, replace |-> <<"u09A6", "u09CD", "u09A6">>],
        [find |-> <<"D">>, replace |-> <<"u09A1">>],
        [find |-> <<"d">>, replace |-> <<"u09A6">>],
        [find |-> <<".", ".", ".">>, replace |-> <<".", ".", ".">>],
        [find |-> <<".", "u0060">>, replace |-> <<".">>],
        [find |-> <<".", ".">>, replace |-> <<"u0964", "u0964">>],
        [find |-> <<".">>, replace |-> <<"u0964">>],
        [find |-> <<"g", "h", "n">>, replace |-> <<"u0998", "u09CD", "u09A8">>],
        [find |-> <<"G", "h", "n">>, replace |-> <<"u0998", "u09CD", "u09A8">>],
        [find |-> <<"g", "d", "h">>, replace |-> <<"u0997", "u09CD", "u09A7">>],
        [find |-> <<"G", "d", "h">>, replace |-> <<"u0997", "u09CD", "u09A7">>],
        [find |-> <<"g", "N">>, replace |-> <<"u0997", "u09CD", "u09A3">>],
        [find |-> <<"G", "N">>, replace |-> <<"u0997", "u09CD", "u09A3">>],
        [find |-> <<"g", "n">>, replace |-> <<"u0997", "u09CD", "u09A8">>],
        [find |-> <<"G", "n">>, replace |-> <<"u0997", "u09CD", "u09A8">>],
        [find |-> <<"g", "m">>, replace |-> <<"u0997", "u09CD", "u09AE">>],
        [find |-> <<"G", "m">>, replace |-> <<"u0997", "u09CD", "u09AE">>],
        [find |-> <<"g", "l">>, replace |-> <<"u0997", "u09CD", "u09B2">>],
        [find |-> <<"G", "l">>, replace |-> <<"u0997", "u09CD", "u09B2">>],
        [find |-> <<"g", "g">>, replace |-> <<"u099C", "u09CD", "u099E">>],
        [find |-> <<"G", "G">>, replace |-> <<"u099C", "u09CD", "u099E">>],
        [find |-> <<"G", "g">>, replace |-> <<"u099C", "u09CD", "u099E">>],
        [find |-> <<"g", "G">>, replace |-> <<"u099C", "u09CD", "u099E">>],
        [find |-> <<"g", "h">>, replace |-> <<"u0998">>],
        [find |-> <<"G", "h">>, replace |-> <<"u0998">>],
        [find |-> <<"g">>, replace |-> <<"u0997">>],
        [find |-> <<"G">>, replace |-> <<"u0997">>],
        [find |-> <<"h", "N">>, replace |-> <<"u09B9", "u09CD", "u09A3">>],
        [find |-> <<"h", "n">>, replace |-> <<"u09B9", "u09CD", "u09A8">>],
        [find |-> <<"h", "m">>, replace |-> <<"u09B9", "u09CD", "u09AE">>],
        [find |-> <<"h", "l">>, replace |-> <<"u09B9", "u09CD", "u09B2">>],
        [find |-> <<"h">>, replace |-> <<"u09B9">>],
        [find |-> <<"j", "j", "h">>, replace |-> <<"u099C", "u09CD", "u099D">>],
        [find |-> <<"j", "N", "G">>, replace |-> <<"u099C", "u09CD", "u099E">>],
        [find |-> <<"j", "h">>, replace |-> <<"u099D">>],
        [find |-> <<"j", "j">>, replace |-> <<"u099C", "u09CD", "u099C">>],
        [find |-> <<"j">>, replace |-> <<"u099C">>],
        [find |-> <<"J">>, replace |-> <<"u099C">>],
        [find |-> <<"k", "k", "h", "N">>, replace |-> <<"u0995", "u09CD", "u09B7", "u09CD", "u09A3">>],
        [find |-> <<"k", "S", "h", "N">>, replace |-> <<"u0995", "u09CD", "u09B7", "u09CD", "u09A3">>],
        [find |-> <<"k", "k", "h", "m">>, replace |-> <<"u0995", "u09CD", "u09B7", "u09CD", "u09AE">>],
        [find |-> <<"k", "S", "h", "m">>, replace |-> <<"u0995", "u09CD", "u09B7", "u09CD", "u09AE">>],
        [find |-> <<"k", "x", "N">>, replace |-> <<"u0995", "u09CD", "u09B7", "u09CD", "u09A3">>],
        [find |-> <<"k", "x", "m">>, replace |-> <<"u0995", "u09CD", "u09B7", "u09CD", "u09AE">>],
        [find |-> <<"k", "k", "h">>, replace |-> <<"u0995", "u09CD", "u09B7">>],
        [find |-> <<"k", "S", "h">>, replace |-> <<"u0995", "u09CD", "u09B7">>],
        [find |-> <<"k", "s", "h">>, replace |-> <<"u0995", "u09B6">>],
        [find |-> <<"k", "x">>, replace |-> <<"u0995", "u09CD", "u09B7">>],
        [find |-> <<"k", "k">>, replace |-> <<"u0995", "u09CD", "u0995">>],
        [find |-> <<"k", "T">>, replace |-> <<"u0995", "u09CD", "u099F">>],
        [find |-> <<"k", "t">>, replace |-> <<"u0995", "u09CD", "u09A4">>],
        [find |-> <<"k", "l">>, replace |-> <<"u0995", "u09CD", "u09B2">>],
        [find |-> <<"k", "s">>, replace |-> <<"u0995", "u09CD", "u09B8">>],
        [find |-> <<"k", "h">>, replace |-> <<"u0996">>],
        [find |-> <<"k">>, replace |-> <<"u0995">>],
        [find |-> <<"l", "b", "h">>, replace |-> <<"u09B2", "u09CD", "u09AD">>],
        [find |-> <<"l", "d", "h">>, replace |-> <<"u09B2", "u09CD", "u09A7">>],
        [find |-> <<"l", "k", "h">>, replace |-> <<"u09B2", "u0996">>],
        [find |-> <<"l", "g", "h">>, replace |-> <<"u09B2", "u0998">>],
        [find |-> <<"l", "p", "h">>, replace |-> <<"u09B2", "u09AB">>],
        [find |-> <<"l", "k">>, replace |-> <<"u09B2", "u09CD", "u0995">>],
        [find |-> <<"l", "g">>, replace |-> <<"u09B2", "u09CD", "u0997">>],
        [find |-> <<"l", "T">>, replace |-> <<"u09B2", "u09CD", "u099F">>],
        [find |-> <<"l", "D">>, replace |-> <<"u09B2", "u09CD", "u09A1">>],
        [find |-> <<"l", "p">>, replace |-> <<"u09B2", "u09CD", "u09AA">>],
        [find |-> <<"l", "v">>, replace |-> <<"u09B2", "u09CD", "u09AD">>],
        [find |-> <<"l", "m">>, replace |-> <<"u09B2", "u09CD", "u09AE">>],
        [find |-> <<"l", "l">>, replace |-> <<"u09B2", "u09CD", "u09B2">>],
        [find |-> <<"l", "b">>, replace |-> <<"u09B2", "u09CD", "u09AC">>],
        [find |-> <<"l">>, replace |-> <<"u09B2">>],
        [find |-> <<"m", "t", "h">>, replace |-> <<"u09AE", "u09CD", "u09A5">>],
        [find |-> <<"m", "p", "h">>, replace |-> <<"u09AE", "u09CD", "u09AB">>],
        [find |-> <<"m", "b", "h">>, replace |-> <<"u09AE", "u09CD", "u09AD">>],
        [find |-> <<"m", "p", "l">>, replace |-> <<"u09AE", "u09AA", "u09CD", "u09B2">>],
        [find |-> <<"m", "n">>, replace |-> <<"u09AE", "u09CD", "u09A8">>],
        [find |-> <<"m", "p">>, replace |-> <<"u09AE", "u09CD", "u09AA">>],
        [find |-> <<"m", "v">>, replace |-> <<"u09AE", "u09CD", "u09AD">>],
        [find |-> <<"m", "m">>, replace |-> <<"u09AE", "u09CD", "u09AE">>],
        [find |-> <<"m", "l">>, replace |-> <<"u09AE", "u09CD", "u09B2">>],
        [find |-> <<"m", "b">>, replace |-> <<"u09AE", "u09CD", "u09AC">>],
        [find |-> <<"m", "f">>, replace |-> <<"u09AE", "u09CD", "u09AB">>],
        [find |-> <<"m">>, replace |-> <<"u09AE">>],
        [find |-> <<"0">>, replace |-> <<"u09E6">>],
        [find |-> <<"1">>, replace |-> <<"u09E7">>],
        [find |-> <<"2">>, replace |-> <<"u09E8">>],
        [find |-> <<"3">>, replace |-> <<"u09E9">>],
        [find |-> <<"4">>, replace |-> <<"u09EA">>],
        [find |-> <<"5">>, replace |-> <<"u09EB">>],
        [find |-> <<"6">>, replace |-> <<"u09EC">>],
        [find |-> <<"7">>, replace |-> <<"u09ED">>],
        [find |-> <<"8">>, replace |-> <<"u09EE">>],
        [find |-> <<"9">>, replace |-> <<"u09EF">>],
        [find |-> <<"N", "g", "k", "S", "h">>, replace |-> <<"u0999", "u09CD", "u0995", "u09CD", "u09B7">>],
        [find |-> <<"N", "g", "k", "k", "h">>, replace |-> <<"u0999", "u09CD", "u0995", "u09CD", "u09B7">>],
        [find |-> <<"N", "G", "c", "h">>, replace |-> <<"u099E", "u09CD", "u099B">>],
        [find |-> <<"N", "g", "g", "h">>, replace |-> <<"u0999", "u09CD", "u0998">>],
        [find |-> <<"N", "g", "k", "h">>, replace |-> <<"u0999", "u09CD", "u0996">>],
        [find |-> <<"N", "G", "j", "h">>, replace |-> <<"u099E", "u09CD", "u099D">>],
        [find |-> <<"n", "g", "O", "U">>, replace |-> <<"u0999", "u09CD", "u0997", "u09CC">>],
        [find |-> <<"n", "g", "O", "I">>, replace |-> <<"u0999", "u09CD", "u0997", "u09C8">>],
        [find |-> <<"N", "g", "k", "x">>, replace |-> <<"u0999", "u09CD", "u0995", "u09CD", "u09B7">>],
        [find |-> <<"N", "G", "c">>, replace |-> <<"u099E", "u09CD", "u099A">>],
        [find |-> <<"n", "c", "h">>, replace |-> <<"u099E", "u09CD", "u099B">>],
        [find |-> <<"n", "j", "h">>, replace |-> <<"u099E", "u09CD", "u099D">>],
        [find |-> <<"n", "g", "h">>, replace |-> <<"u0999", "u09CD", "u0998">>],
        [find |-> <<"N", "g", "k">>, replace |-> <<"u0999", "u09CD", "u0995">>],
        [find |-> <<"N", "g", "x">>, replace |-> <<"u0999", "u09CD", "u09B7">>],
        [find |-> <<"N", "g", "g">>, replace |-> <<"u0999", "u09CD", "u0997">>],
        [find |-> <<"N", "g", "m">>, replace |-> <<"u0999", "u09CD", "u09AE">>],
        [find |-> <<"N", "G", "j">>, replace |-> <<"u099E", "u09CD", "u099C">>],
        [find |-> <<"n", "d", "h">>, replace |-> <<"u09A8", "u09CD", "u09A7">>],
        [find |-> <<"n", "T", "h">>, replace |-> <<"u09A8", "u09CD", "u09A0">>],
        [find |-> <<"N", "T", "h">>, replace |-> <<"u09A3", "u09CD", "u09A0">>],
        [find |-> <<"n", "t", "h">>, replace |-> <<"u09A8", "u09CD", "u09A5">>],
        [find |-> <<"n", "k", "h">>, replace |-> <<"u0999", "u09CD", "u0996">>],
        [find |-> <<"n", "g", "o">>, replace |-> <<"u0999", "u09CD", "u0997">>],
        [find |-> <<"n", "g", "a">>, replace |-> <<"u0999", "u09CD", "u0997", "u09BE">>],
        [find |-> <<"n", "g", "i">>, replace |-> <<"u0999", "u09CD", "u0997", "u09BF">>],
        [find |-> <<"n", "g", "I">>, replace |-> <<"u0999", "u09CD", "u0997", "u09C0">>],
        [find |-> <<"n", "g", "u">>, replace |-> <<"u0999", "u09CD", "u0997", "u09C1">>],
        [find |-> <<"n", "g", "U">>, replace |-> <<"u0999", "u09CD", "u0997", "u09C2">>],
        [find |-> <<"n", "g", "e">>, replace |-> <<"u0999", "u09CD", "u0997", "u09C7">>],
        [find |-> <<"n", "g", "O">>, replace |-> <<"u0999", "u09CD", "u0997", "u09CB">>],
        [find |-> <<"N", "D", "h">>, replace |-> <<"u09A3", "u09CD", "u09A2">>],
        [find |-> <<"n", "s", "h">>, replace |-> <<"u09A8", "u09B6">>],
        [find |-> <<"N", "g", "r">>, replace |-> <<"u0999", "u09B0">>],
        [find |-> <<"N", "G", "r">>, replace |-> <<"u099E", "u09B0">>],
        [find |-> <<"n", "g", "r">>, replace |-> <<"u0982", "u09B0">>],
        [find |-> <<"n", "j">>, replace |-> <<"u099E", "u09CD", "u099C">>],
        [find |-> <<"N", "g">>, replace |-> <<"u0999">>],
        [find |-> <<"N", "G">>, replace |-> <<"u099E">>],
        [find |-> <<"n", "k">>, replace |-> <<"u0999", "u09CD", "u0995">>],
        [find |-> <<"n", "g">>, replace |-> <<"u0982">>],
        [find |-> <<"n", "n">>, replace |-> <<"u09A8", "u09CD", "u09A8">>],
        [find |-> <<"N", "N">>, replace |-> <<"u09A3", "u09CD", "u09A3">>],
        [find |-> <<"N", "n">>, replace |-> <<"u09A3", "u09CD", "u09A8">>],
        [find |-> <<"n", "m">>, replace |-> <<"u09A8", "u09CD", "u09AE">>],
        [find |-> <<"N", "m">>, replace |-> <<"u09A3", "u09CD", "u09AE">>],
        [find |-> <<"n", "d">>, replace |-> <<"u09A8", "u09CD", "u09A6">>],
        [find |-> <<"n", "T">>, replace |-> <<"u09A8", "u09CD", "u099F">>],
        [find |-> <<"N", "T">>, replace |-> <<"u09A3", "u09CD", "u099F">>],
        [find |-> <<"n", "D">>, replace |-> <<"u09A8", "u09CD", "u09A1">>],
        [find |-> <<"N", "D">>, replace |-> <<"u09A3", "u09CD", "u09A1">>],
        [find |-> <<"n", "t">>, replace |-> <<"u09A8", "u09CD", "u09A4">>],
        [find |-> <<"n", "s">>, replace |-> <<"u09A8", "u09CD", "u09B8">>],
        [find |-> <<"n", "c">>, replace |-> <<"u099E", "u09CD", "u099A">>],
        [find |-> <<"n">>, replace |-> <<"u09A8">>],
        [find |-> <<"N">>, replace |-> <<"u09A3">>],
        [find |-> <<"O", "I", "u0060">>, replace |-> <<"u09C8">>],
        [find |-> <<"O", "U", "u0060">>, replace |-> <<"u09CC">>],
        [find |-> <<"O", "u0060">>, replace |-> <<"u09CB">>],
        [find |-> <<"O", "I">>, replace |-> <<"u09C8">>,
       rules |-> <<
         [matches |-> <<[type |-> "prefix", scope |-> "!consonant"]>>,
          replace |-> <<"u0990">>],
         [matches |-> <<[type |-> "prefix", scope |-> "punctuation"]>>,
          replace |-> <<"u0990">>] >>],
        [find |-> <<"O", "U">>, replace |-> <<"u09CC">>,
       rules |-> <<
         [matches |-> <<[type |-> "prefix", scope |-> "!consonant"]>>,
          replace |-> <<"u0994">>],
         [matches |-> <<[type |-> "prefix", scope |-> "punctuation"]>>,
          replace |-> <<"u0994">>] >>],
        [find |-> <<"O">>, replace |-> <<"u09CB">>,
       rules |-> <<
         [matches |-> <<[type |-> "prefix", scope |-> "!consonant"]>>,
          replace |-> <<"u0993">>],
         [matches |-> <<[type |-> "prefix", scope |-> "punctuation"]>>,
          replace |-> <<"u0993">>] >>],
        [find |-> <<"p", "h", "l">>, replace |-> <<"u09AB", "u09CD", "u09B2">>],
        [find |-> <<"p", "T">>, replace |-> <<"u09AA", "u09CD", "u099F">>],
        [find |-> <<"p", "t">>, replace |-> <<"u09AA", "u09CD", "u09A4">>],
        [find |-> <<"p", "n">>, replace |-> <<"u09AA", "u09CD", "u09A8">>],
        [find |-> <<"p", "p">>, replace |-> <<"u09AA", "u09CD", "u09AA">>],
        [find |-> <<"p", "l">>, replace |-> <<"u09AA", "u09CD", "u09B2">>],
        [find |-> <<"p", "s">>, replace |-> <<"u09AA", "u09CD", "u09B8">>],
        [find |-> <<"p", "h">>, replace |-> <<"u09AB">>],
        [find |-> <<"f", "l">>, replace |-> <<"u09AB", "u09CD", "u09B2">>],
        [find |-> <<"f">>, replace |-> <<"u09AB">>],
        [find |-> <<"p">>, replace |-> <<"u09AA">>],
        [find |-> <<"r", "r", "i", "u0060">>, replace |-> <<"u09C3">>],
        [find |-> <<"r", "r", "i">>, replace |-> <<"u09C3">>,
       rules |-> <<
         [matches |-> <<[type |-> "prefix", scope |-> "!consonant"]>>,
          replace |-> <<"u098B">>],
         [matches |-> <<[type |-> "prefix", scope |-> "punctuation"]>>,
          replace |-> <<"u098B">>] >>],
        [find |-> <<"r", "r", "Z">>, replace |-> <<"u09B0", "u09B0", "u200D", "u09CD", "u09AF">>],
        [find |-> <<"r", "r", "y">>, replace |-> <<"u09B0", "u09B0", "u200D", "u09CD", "u09AF">>],
        [find |-> <<"r", "Z">>, replace |-> <<"u09B0", "u200D", "u09CD", "u09AF">>,
       rules |-> <<
         [matches |-> <<[type |-> "prefix", scope |-> "consonant"], [type |-> "prefix", scope |-> "!exact", value |-> <<"r">>], [type |-> "prefix", scope |-> "!exact", value |-> <<"y">>], [type |-> "prefix", scope |-> "!exact", value |-> <<"w">>], [type |-> "prefix", scope |-> "!exact", value |-> <<"x">>]>>,
          replace |-> <<"u09CD", "u09B0", "u09CD", "u09AF">>] >>],
        [find |-> <<"r", "y">>, replace |-> <<"u09B0", "u200D", "u09CD", "u09AF">>,
       rules |-> <<
         [matches |-> <<[type |-> "prefix", scope |-> "consonant"], [type |-> "prefix", scope |-> "!exact", value |-> <<"r">>], [type |-> "prefix", scope |-> "!exact", value |-> <<"y">>], [type |-> "prefix", scope |-> "!exact", value |-> <<"w">>], [type |-> "prefix", scope |-> "!exact", value |-> <<"x">>]>>,
          replace |-> <<"u09CD", "u09B0", "u09CD", "u09AF">>] >>],
        [find |-> <<"r", "r">>, replace |-> <<"u09B0", "u09B0">>,
       rules |-> <<
         [matches |-> <<[type |-> "prefix", scope |-> "!consonant"], [type |-> "suffix", scope |-> "!vowel"], [type |-> "suffix", scope |-> "!exact", value |-> <<"r">>], [type |-> "suffix", scope |-> "!punctuation"]>>,
          replace |-> <<"u09B0", "u09CD">>],
         [matches |-> <<[type |-> "prefix", scope |-> "consonant"], [type |-> "prefix", scope |-> "!exact", value |-> <<"r">>]>>,
          replace |-> <<"u09CD", "u09B0", "u09B0">>] >>],
        [find |-> <<"R", "g">>, replace |-> <<"u09DC", "u09CD", "u0997">>],
        [find |-> <<"R", "h">>, replace |-> <<"u09DD">>],
        [find |-> <<"R">>, replace |-> <<"u09DC">>],
        [find |-> <<"r">>, replace |-> <<"u09B0">>,
       rules |-> <<
         [matches |-> <<[type |-> "prefix", scope |-> "consonant"], [type |-> "prefix", scope |-> "!exact", value |-> <<"r">>], [type |-> "prefix", scope |-> "!exact", value |-> <<"y">>], [type |-> "prefix", scope |-> "!exact", value |-> <<"w">>], [type |-> "prefix", scope |-> "!exact", value |-> <<"x">>], [type |-> "prefix", scope |-> "!exact", value |-> <<"Z">>]>>,
          replace |-> <<"u09CD", "u09B0">>] >>],
        [find |-> <<"s", "h", "c", "h">>, replace |-> <<"u09B6", "u09CD", "u099B">>],
        [find |-> <<"S", "h", "T", "h">>, replace |-> <<"u09B7", "u09CD", "u09A0">>],
        [find |-> <<"S", "h", "p", "h">>, replace |-> <<"u09B7", "u09CD", "u09AB">>],
        [find |-> <<"S", "c", "h">>, replace |-> <<"u09B6", "u09CD", "u099B">>],
        [find |-> <<"s", "k", "l">>, replace |-> <<"u09B8", "u09CD", "u0995", "u09CD", "u09B2">>],
        [find |-> <<"s", "k", "h">>, replace |-> <<"u09B8", "u09CD", "u0996">>],
        [find |-> <<"s", "t", "h">>, replace |-> <<"u09B8", "u09CD", "u09A5">>],
        [find |-> <<"s", "p", "h">>, replace |-> <<"u09B8", "u09CD", "u09AB">>],
        [find |-> <<"s", "h", "c">>, replace |-> <<"u09B6", "u09CD", "u099A">>],
        [find |-> <<"s", "h", "t">>, replace |-> <<"u09B6", "u09CD", "u09A4">>],
        [find |-> <<"s", "h", "n">>, replace |-> <<"u09B6", "u09CD", "u09A8">>],
        [find |-> <<"s", "h", "m">>, replace |-> <<"u09B6", "u09CD", "u09AE">>],
        [find |-> <<"s", "h", "l">>, replace |-> <<"u09B6", "u09CD", "u09B2">>],
        [find |-> <<"S", "h", "k">>, replace |-> <<"u09B7", "u09CD", "u0995">>],
        [find |-> <<"S", "h", "T">>, replace |-> <<"u09B7", "u09CD", "u099F">>],
        [find |-> <<"S", "h", "N">>, replace |-> <<"u09B7", "u09CD", "u09A3">>],
        [find |-> <<"S", "h", "p">>, replace |-> <<"u09B7", "u09CD", "u09AA">>],
        [find |-> <<"S", "h", "f">>, replace |-> <<"u09B7", "u09CD", "u09AB">>],
        [find |-> <<"S", "h", "m">>, replace |-> <<"u09B7", "u09CD", "u09AE">>],
        [find |-> <<"s", "p", "l">>, replace |-> <<"u09B8", "u09CD", "u09AA", "u09CD", "u09B2">>],
        [find |-> <<"s", "k">>, replace |-> <<"u09B8", "u09CD", "u0995">>],
        [find |-> <<"S", "c">>, replace |-> <<"u09B6", "u09CD", "u099A">>],
        [find |-> <<"s", "T">>, replace |-> <<"u09B8", "u09CD", "u099F">>],
        [find |-> <<"s", "t">>, replace |-> <<"u09B8", "u09CD", "u09A4">>],
        [find |-> <<"s", "n">>, replace |-> <<"u09B8", "u09CD", "u09A8">>],
        [find |-> <<"s", "p">>, replace |-> <<"u09B8", "u09CD", "u09AA">>],
        [find |-> <<"s", "f">>, replace |-> <<"u09B8", "u09CD", "u09AB">>],
        [find |-> <<"s", "m">>, replace |-> <<"u09B8", "u09CD", "u09AE">>],
        [find |-> <<"s", "l">>, replace |-> <<"u09B8", "u09CD", "u09B2">>],
        [find |-> <<"s", "h">>, replace |-> <<"u09B6">>],
        [find |-> <<"S", "c">>, replace |-> <<"u09B6", "u09CD", "u099A">>],
        [find |-> <<"S", "t">>, replace |-> <<"u09B6", "u09CD", "u09A4">>],
        [find |-> <<"S", "n">>, replace |-> <<"u09B6", "u09CD", "u09A8">>],
        [find |-> <<"S", "m">>, replace |-> <<"u09B6", "u09CD", "u09AE">>],
        [find |-> <<"S", "l">>, replace |-> <<"u09B6", "u09CD", "u09B2">>],
        [find |-> <<"S", "h">>, replace |-> <<"u09B7">>],
        [find |-> <<"s">>, replace |-> <<"u09B8">>],
        [find |-> <<"S">>, replace |-> <<"u09B6">>],
        [find |-> <<"o", "o", "u0060">>, replace |-> <<"u09C1">>],
        [find |-> <<"o", "o">>, replace |-> <<"u09C1">>,
       rules |-> <<
         [matches |-> <<[type |-> "prefix", scope |-> "!consonant"], [type |-> "suffix", scope |-> "!exact", value |-> <<"u0060">>]>>,
          replace |-> <<"u0989">>],
         [matches |-> <<[type |-> "prefix", scope |-> "punctuation"], [type |-> "suffix", scope |-> "!exact", value |-> <<"u0060">>]>>,
          replace |-> <<"u0989">>] >>],
        [find |-> <<"o", "u0060">>, replace |-> <<>>],
        [find |-> <<"o", "Z">>, replace |-> <<"u0985", "u09CD", "u09AF">>],
        [find |-> <<"o">>, replace |-> <<>>,
       rules |-> <<
         [matches |-> <<[type |-> "prefix", scope |-> "vowel"], [type |-> "prefix", scope |-> "!exact", value |-> <<"o">>]>>,
          replace |-> <<"u0993">>],
         [matches |-> <<[type |-> "prefix", scope |-> "vowel"], [type |-> "prefix", scope |-> "exact", value |-> <<"o">>]>>,
          replace |-> <<"u0985">>],
         [matches |-> <<[type |-> "prefix", scope |-> "punctuation"]>>,
          replace |-> <<"u0985">>] >>],
        [find |-> <<"t", "t", "h">>, replace |-> <<"u09A4", "u09CD", "u09A5">>],
        [find |-> <<"t", "u0060", "u0060">>, replace |-> <<"u09CE">>],
        [find |-> <<"T", "T">>, replace |-> <<"u099F", "u09CD", "u099F">>],
        [find |-> <<"T", "m">>, replace |-> <<"u099F", "u09CD", "u09AE">>],
        [find |-> <<"T", "h">>, replace |-> <<"u09A0">>],
        [find |-> <<"t", "n">>, replace |-> <<"u09A4", "u09CD", "u09A8">>],
        [find |-> <<"t", "m">>, replace |-> <<"u09A4", "u09CD", "u09AE">>],
        [find |-> <<"t", "h">>, replace |-> <<"u09A5">>],
        [find |-> <<"t", "t">>, replace |-> <<"u09A4", "u09CD", "u09A4">>],
        [find |-> <<"T">>, replace |-> <<"u099F">>],
        [find |-> <<"t">>, replace |-> <<"u09A4">>],
        [find |-> <<"a", "Z">>, replace |-> <<"u0985", "u09CD", "u09AF", "u09BE">>],
        [find |-> <<"A", "Z">>, replace |-> <<"u0985", "u09CD", "u09AF", "u09BE">>],
        [find |-> <<"a", "u0060">>, replace |-> <<"u09BE">>],
        [find |-> <<"A", "u0060">>, replace |-> <<"u09BE">>],
        [find |-> <<"a">>, replace |-> <<"u09BE">>,
       rules |-> <<
         [matches |-> <<[type |-> "prefix", scope |-> "punctuation"], [type |-> "suffix", scope |-> "!exact", value |-> <<"u0060">>]>>,
          replace |-> <<"u0986">>],
         [matches |-> <<[type |-> "prefix", scope |-> "!consonant"], [type |-> "prefix", scope |-> "!exact", value |-> <<"a">>], [type |-> "suffix", scope |-> "!exact", value |-> <<"u0060">>]>>,
          replace |-> <<"u09DF", "u09BE">>],
         [matches |-> <<[type |-> "prefix", scope |-> "exact", value |-> <<"a">>], [type |-> "suffix", scope |-> "!exact", value |-> <<"u0060">>]>>,
          replace |-> <<"u0986">>] >>],
        [find |-> <<"i", "u0060">>, replace |-> <<"u09BF">>],
        [find |-> <<"i">>, replace |-> <<"u09BF">>,
       rules |-> <<
         [matches |-> <<[type |-> "prefix", scope |-> "!consonant"], [type |-> "suffix", scope |-> "!exact", value |-> <<"u0060">>]>>,
          replace |-> <<"u0987">>],
         [matches |-> <<[type |-> "prefix", scope |-> "punctuation"], [type |-> "suffix", scope |-> "!exact", value |-> <<"u0060">>]>>,
          replace |-> <<"u0987">>] >>],
        [find |-> <<"I", "u0060">>, replace |-> <<"u09C0">>],
        [find |-> <<"I">>, replace |-> <<"u09C0">>,
       rules |-> <<
         [matches |-> <<[type |-> "prefix", scope |-> "!consonant"], [type |-> "suffix", scope |-> "!exact", value |-> <<"u0060">>]>>,
          replace |-> <<"u0988">>],
         [matches |-> <<[type |-> "prefix", scope |-> "punctuation"], [type |-> "suffix", scope |-> "!exact", value |-> <<"u0060">>]>>,
          replace |-> <<"u0988">>] >>],
        [find |-> <<"u", "u0060">>, replace |-> <<"u09C1">>],
        [find |-> <<"u">>, replace |-> <<"u09C1">>,
       rules |-> <<
         [matches |-> <<[type |-> "prefix", scope |-> "!consonant"], [type |-> "suffix", scope |-> "!exact", value |-> <<"u0060">>]>>,
          replace |-> <<"u0989">>],
         [matches |-> <<[type |-> "prefix", scope |-> "punctuation"], [type |-> "suffix", scope |-> "!exact", value |-> <<"u0060">>]>>,
          replace |-> <<"u0989">>] >>],
        [find |-> <<"U", "u0060">>, replace |-> <<"u09C2">>],
        [find |-> <<"U">>, replace |-> <<"u09C2">>,
       rules |-> <<
         [matches |-> <<[type |-> "prefix", scope |-> "!consonant"], [type |-> "suffix", scope |-> "!exact", value |-> <<"u0060">>]>>,
          replace |-> <<"u098A">>],
         [matches |-> <<[type |-> "prefix", scope |-> "punctuation"], [type |-> "suffix", scope |-> "!exact", value |-> <<"u0060">>]>>,
          replace |-> <<"u098A">>] >>],
        [find |-> <<"e", "e", "u0060">>, replace |-> <<"u09C0">>],
        [find |-> <<"e", "e">>, replace |-> <<"u09C0">>,
       rules |-> <<
         [matches |-> <<[type |-> "prefix", scope |-> "!consonant"], [type |-> "suffix", scope |-> "!exact", value |-> <<"u0060">>]>>,
          replace |-> <<"u0988">>],
         [matches |-> <<[type |-> "prefix", scope |-> "punctuation"], [type |-> "suffix", scope |-> "!exact", value |-> <<"u0060">>]>>,
          replace |-> <<"u0988">>] >>],
        [find |-> <<"e", "u0060">>, replace |-> <<"u09C7">>],
        [find |-> <<"e">>, replace |-> <<"u09C7">>,
       rules |-> <<
         [matches |-> <<[type |-> "prefix", scope |-> "!consonant"], [type |-> "suffix", scope |-> "!exact", value |-> <<"u0060">>]>>,
          replace |-> <<"u098F">>],
         [matches |-> <<[type |-> "prefix", scope |-> "punctuation"], [type |-> "suffix", scope |-> "!exact", value |-> <<"u0060">>]>>,
          replace |-> <<"u098F">>] >>],
        [find |-> <<"z">>, replace |-> <<"u09AF">>],
        [find |-> <<"Z">>, replace |-> <<"u09CD", "u09AF">>],
        [find |-> <<"y">>, replace |-> <<"u09CD", "u09AF">>,
       rules |-> <<
         [matches |-> <<[type |-> "prefix", scope |-> "!consonant"], [type |-> "prefix", scope |-> "!punctuation"]>>,
          replace |-> <<"u09DF">>],
         [matches |-> <<[type |-> "prefix", scope |-> "punctuation"]>>,
          replace |-> <<"u0987", "u09DF">>] >>],
        [find |-> <<"Y">>, replace |-> <<"u09DF">>],
        [find |-> <<"q">>, replace |-> <<"u0995">>],
        [find |-> <<"w">>, replace |-> <<"u0993">>,
       rules |-> <<
         [matches |-> <<[type |-> "prefix", scope |-> "punctuation"], [type |-> "suffix", scope |-> "vowel"]>>,
          replace |-> <<"u0993", "u09DF">>],
         [matches |-> <<[type |-> "prefix", scope |-> "consonant"]>>,
          replace |-> <<"u09CD", "u09AC">>] >>],
        [find |-> <<"x">>, replace |-> <<"u0995", "u09CD", "u09B8">>,
       rules |-> <<
         [matches |-> <<[type |-> "prefix", scope |-> "punctuation"]>>,
          replace |-> <<"u098F", "u0995", "u09CD", "u09B8">>] >>],
        [find |-> <<":", "u0060">>, replace |-> <<":">>],
        [find |-> <<":">>, replace |-> <<"u0983">>],
        [find |-> <<"^", "u0060">>, replace |-> <<"^">>],
        [find |-> <<"^">>, replace |-> <<"u0981">>],
        [find |-> <<",", ",">>, replace |-> <<"u09CD", "u200C">>],
        [find |-> <<",">>, replace |-> <<",">>],
        [find |-> <<"$">>, replace |-> <<"u09F3">>],
        [find |-> <<"u0060">>, replace |-> <<>>] >>,
   VOWELS |-> <<"a", "e", "i", "o", "u">>,
   CONSONANTS |-> <<"b", "c", "d", "f", "g", "h", "j", "k", "l", "m", "n",
                    "p", "q", "r", "s", "t", "v", "w", "x", "y", "z">>,
   CASESENSITIVES |-> <<"o", "i", "u", "d", "g", "j", "n", "r", "s", "t",
                        "y", "z">>,
   DIGITS |-> <<"0", "1", "2", "3", "4", "5", "6", "7", "8", "9">>]

VARIABLES
  heap,        \* the pattern dicts built by init_data
  PATTERNS, NON_RULE_PATTERNS, RULE_PATTERNS,   \* the engine's lists of
                                                \* references to patterns
  VOWELS, CONSONANTS, CASESENSITIVES, DIGITS,   \* the engine's classifier sets
  text,        \* argument of the parse call in progress (or of the last one)
  fixed_text,  \* parse: the case-normalized text
  output,      \* parse: the list of appended strings
  cur_end,     \* parse: end of the last consumed span
  cur,         \* parse: position of the enumerate loop
  pc,          \* "idle", "loop", "done" (returned) or "raised"
  result,      \* value returned by the last completed parse call
  last,        \* what the last loop iteration did (history)
  memo,        \* an earlier completed call and its result (history)
  pmatch,      \* _process_match called on its own: its argument match
  replace      \* _process_match called on its own: its return value

engine ==
  <<PATTERNS, NON_RULE_PATTERNS, RULE_PATTERNS,
    VOWELS, CONSONANTS, CASESENSITIVES, DIGITS, heap>>

vars ==
  <<heap, PATTERNS, NON_RULE_PATTERNS, RULE_PATTERNS,
    VOWELS, CONSONANTS, CASESENSITIVES, DIGITS,
    text, fixed_text, output, cur_end, cur, pc, result, last, memo,
    pmatch, replace>>

----------------------------------------------------------------------------
(* Python primitives *)

\* The pattern dict a reference held by one of the lists points to.
deref(x) == heap[x]

\* A value returned normally, and an exception propagating instead of one.
Ret(v) == [exc |-> "none", val |-> v]

Raise(e) == [exc |-> e, val |-> FALSE]

\* sub in s, for two Python strings: substring test.
str_in(sub, s) ==
  \E k \in 0..(Len(s) - Len(sub)) : SubSeq(s, k + 1, k + Len(sub)) = sub

\* s[i] for a Python string: negative indices count from the end.
getitem(s, i) ==
  IF 0 <= i /\ i < Len(s) THEN Ret(s[i + 1])
  ELSE IF -Len(s) <= i /\ i < 0 THEN Ret(s[Len(s) + i + 1])
  ELSE Raise("IndexError")

\* s[start:end] for 0 <= start and end <= len(s).
slice(s, start, end) == SubSeq(s, start + 1, end)

\* ''.join(parts)
RECURSIVE join(_)
join(parts) ==
  IF parts = <<>> THEN <<>> ELSE Head(parts) \o join(Tail(parts))

UPPERCASE ==
  <<"A", "B", "C", "D", "E", "F", "G", "H", "I", "J", "K", "L", "M",
    "N", "O", "P", "Q", "R", "S", "T", "U", "V", "W", "X", "Y", "Z">>

LOWERCASE ==
  <<"a", "b", "c", "d", "e", "f", "g", "h", "i", "j", "k", "l", "m",
    "n", "o", "p", "q", "r", "s", "t", "u", "v", "w", "x", "y", "z">>

\* char.lower(): a string, not always of one character.  "u00C9" is LATIN
\* CAPITAL LETTER E WITH ACUTE; "u0130" is LATIN CAPITAL LETTER I WITH DOT
\* ABOVE, whose lowercase is "i" followed by COMBINING DOT ABOVE.
lower(char) ==
  IF \E k \in 1..26 : UPPERCASE[k] = char
  THEN <<LOWERCASE[CHOOSE k \in 1..26 : UPPERCASE[k] = char]>>
  ELSE IF char = "u00C9" THEN <<"u00E9">>
  ELSE IF char = "u0130" THEN <<"i", "u0307">>
  ELSE <<char>>

\* i.encode('utf-8'): a lone surrogate cannot be encoded.
encode(i) == IF i = "uD800" THEN "UnicodeEncodeError" ELSE "ok"

----------------------------------------------------------------------------
(* Character classifier *)

_is_vowel(char) == str_in(lower(char), VOWELS)

\* Mutant of _is_consonant: "char in" for "char.lower() in".
_is_consonant_nolower(char) == str_in(<<char>>, CONSONANTS)

_is_consonant(char) == str_in(lower(char), CONSONANTS)

_is_number(char) == str_in(lower(char), DIGITS)

\* Mutant of _is_punctuation: a vowel counts as punctuation.
_is_punctuation_vowel(char) == ~str_in(lower(char), CONSONANTS)

_is_punctuation(char) ==
  ~(str_in(lower(char), VOWELS) \/ str_in(lower(char), CONSONANTS))

_is_case_sensitive(char) == str_in(lower(char), CASESENSITIVES)

\* Mutant of _is_exact: "end <= len(haystack)" for "end < len(haystack)".
_is_exact_le(needle, haystack, start, end, matchnot) ==
  (start >= 0 /\ end <= Len(haystack)
     /\ slice(haystack, start, end) = needle) # matchnot

_is_exact(needle, haystack, start, end, matchnot) ==
  (start >= 0 /\ end < Len(haystack) /\ slice(haystack, start, end) = needle)
    # matchnot

----------------------------------------------------------------------------
(* Case normalizer *)

_utf(t) == t

\* Mutant of _fix_string_case: every character is kept as it is.
_fix_string_case_raw(t) == t

RECURSIVE _fix_string_case(_)
_fix_string_case(t) ==
  IF t = <<>> THEN <<>>
  ELSE (IF _is_case_sensitive(Head(t)) THEN <<Head(t)>> ELSE lower(Head(t)))
         \o _fix_string_case(Tail(t))

----------------------------------------------------------------------------
(* Pattern matcher *)

\* Mutant of _exact_find_in_pattern: the matching patterns are returned in
\* reverse table order.
RECURSIVE reversed(_)
reversed(q) == IF q = <<>> THEN <<>> ELSE Append(reversed(Tail(q)), Head(q))

_exact_find_in_pattern_reversed(ft, c, PATS) ==
  reversed(SelectSeq(PATS, LAMBDA x :
    (c + Len(deref(x).find) <= Len(ft))
      /\ deref(x).find = slice(ft, c, c + Len(deref(x).find))))

\* Mutant of _exact_find_in_pattern: "<" for "<=" in the length test.
_exact_find_in_pattern_lt(ft, c, PATS) ==
  SelectSeq(PATS, LAMBDA x :
    (c + Len(deref(x).find) < Len(ft))
      /\ deref(x).find = slice(ft, c, c + Len(deref(x).find)))

_exact_find_in_pattern(ft, c, PATS) ==
  SelectSeq(PATS, LAMBDA x :
    (c + Len(deref(x).find) <= Len(ft))
      /\ deref(x).find = slice(ft, c, c + Len(deref(x).find)))

\* Mutant of _match_non_rule_patterns: "len(pattern) > 1" for
\* "len(pattern) > 0".
_match_non_rule_patterns_gt1(ft, c) ==
  LET pattern == _exact_find_in_pattern(ft, c, NON_RULE_PATTERNS)
  IN  IF Len(pattern) > 1
      THEN [exc |-> "none", matched |-> TRUE, found |-> deref(pattern[1]).find,
            replaced |-> deref(pattern[1]).replace]
      ELSE [exc |-> getitem(ft, c).exc, matched |-> FALSE, found |-> <<>>,
            replaced |-> <<getitem(ft, c).val>>]

\* "found": None is modelled as the empty string; it is read only when
\* "matched" is true.
_match_non_rule_patterns(ft, c) ==
  LET pattern == _exact_find_in_pattern(ft, c, NON_RULE_PATTERNS)
  IN  IF Len(pattern) > 0
      THEN [exc |-> "none", matched |-> TRUE, found |-> deref(pattern[1]).find,
            replaced |-> deref(pattern[1]).replace]
      ELSE [exc |-> getitem(ft, c).exc, matched |-> FALSE, found |-> <<>>,
            replaced |-> <<getitem(ft, c).val>>]

_match_rule_patterns(ft, c) ==
  LET pattern == _exact_find_in_pattern(ft, c, RULE_PATTERNS)
  IN  IF Len(pattern) > 0
      THEN [exc |-> "none", matched |-> TRUE, found |-> deref(pattern[1]).find,
            replaced |-> deref(pattern[1]).replace, rules |-> deref(pattern[1]).rules]
      ELSE [exc |-> getitem(ft, c).exc, matched |-> FALSE, found |-> <<>>,
            replaced |-> <<getitem(ft, c).val>>, rules |-> <<>>]

----------------------------------------------------------------------------
(* Rule evaluator *)

\* Mutant of negated: negative is set to False in both branches.
negated_never(scope) == FALSE

\* match['scope'].startswith('!') and match['scope'][1:]
negated(scope) ==
  scope \in {"!punctuation", "!vowel", "!consonant", "!exact"}

scope_name(scope) ==
  CASE scope = "!punctuation" -> "punctuation"
    [] scope = "!vowel" -> "vowel"
    [] scope = "!consonant" -> "consonant"
    [] scope = "!exact" -> "exact"
    [] OTHER -> scope

\* Mutant of _process_match: the punctuation scope reads fixed_text[chk]
\* without the two tests of chk against the ends of the text.
_process_match_unguarded(match, ft, c, ce) ==
  LET chk == IF match.type = "prefix" THEN c - 1 ELSE ce
      negative == negated(match.scope)
      scope == scope_name(match.scope)
      ch == getitem(ft, chk)
      exact_start == IF match.type = "prefix" THEN c - Len(match.value) ELSE ce
      exact_end == IF match.type = "prefix" THEN c ELSE ce + Len(match.value)
  IN  CASE scope = "punctuation" ->
             IF ch.exc # "none" THEN Raise(ch.exc)
             ELSE Ret(_is_punctuation(ch.val) # negative)
        [] scope = "vowel" ->
             IF ~((chk >= 0 /\ match.type = "prefix")
                    \/ (chk < Len(ft) /\ match.type = "suffix"))
             THEN Ret(FALSE # negative)
             ELSE IF ch.exc # "none" THEN Raise(ch.exc)
             ELSE Ret(_is_vowel(ch.val) # negative)
        [] scope = "consonant" ->
             IF ~((chk >= 0 /\ match.type = "prefix")
                    \/ (chk < Len(ft) /\ match.type = "suffix"))
             THEN Ret(FALSE # negative)
             ELSE IF ch.exc # "none" THEN Raise(ch.exc)
             ELSE Ret(_is_consonant(ch.val) # negative)
        [] scope = "exact" ->
             IF "value" \notin DOMAIN match THEN Raise("KeyError")
             ELSE Ret(_is_exact(match.value, ft, exact_start, exact_end,
                                negative))
        [] OTHER -> Ret(TRUE)

\* Mutant of _process_match: "chk <= len(fixed_text)" for
\* "chk < len(fixed_text)" in the vowel and consonant scopes.
_process_match_le(match, ft, c, ce) ==
  LET chk == IF match.type = "prefix" THEN c - 1 ELSE ce
      negative == negated(match.scope)
      scope == scope_name(match.scope)
      ch == getitem(ft, chk)
      exact_start == IF match.type = "prefix" THEN c - Len(match.value) ELSE ce
      exact_end == IF match.type = "prefix" THEN c ELSE ce + Len(match.value)
  IN  CASE scope = "punctuation" ->
             IF (chk < 0 /\ match.type = "prefix")
                  \/ (chk >= Len(ft) /\ match.type = "suffix")
             THEN Ret(TRUE # negative)
             ELSE IF ch.exc # "none" THEN Raise(ch.exc)
             ELSE Ret(_is_punctuation(ch.val) # negative)
        [] scope = "vowel" ->
             IF ~((chk >= 0 /\ match.type = "prefix")
                    \/ (chk <= Len(ft) /\ match.type = "suffix"))
             THEN Ret(FALSE # negative)
             ELSE IF ch.exc # "none" THEN Raise(ch.exc)
             ELSE Ret(_is_vowel(ch.val) # negative)
        [] scope = "consonant" ->
             IF ~((chk >= 0 /\ match.type = "prefix")
                    \/ (chk <= Len(ft) /\ match.type = "suffix"))
             THEN Ret(FALSE # negative)
             ELSE IF ch.exc # "none" THEN Raise(ch.exc)
             ELSE Ret(_is_consonant(ch.val) # negative)
        [] scope = "exact" ->
             IF "value" \notin DOMAIN match THEN Raise("KeyError")
             ELSE Ret(_is_exact(match.value, ft, exact_start, exact_end,
                                negative))
        [] OTHER -> Ret(TRUE)

\* Ret(replace) or the exception raised by an index read.  The source's
\* "not (R) ^ negative" parses as not (R ^ negative), so replace is
\* R ^ negative.
_process_match(match, ft, c, ce) ==
  LET chk == IF match.type = "prefix" THEN c - 1 ELSE ce
      negative == negated(match.scope)
      scope == scope_name(match.scope)
      ch == getitem(ft, chk)
      exact_start == IF match.type = "prefix" THEN c - Len(match.value) ELSE ce
      exact_end == IF match.type = "prefix" THEN c ELSE ce + Len(match.value)
  IN  CASE scope = "punctuation" ->
             IF (chk < 0 /\ match.type = "prefix")
                  \/ (chk >= Len(ft) /\ match.type = "suffix")
             THEN Ret(TRUE # negative)
             ELSE IF ch.exc # "none" THEN Raise(ch.exc)
             ELSE Ret(_is_punctuation(ch.val) # negative)
        [] scope = "vowel" ->
             IF ~((chk >= 0 /\ match.type = "prefix")
                    \/ (chk < Len(ft) /\ match.type = "suffix"))
             THEN Ret(FALSE # negative)
             ELSE IF ch.exc # "none" THEN Raise(ch.exc)
             ELSE Ret(_is_vowel(ch.val) # negative)
        [] scope = "consonant" ->
             IF ~((chk >= 0 /\ match.type = "prefix")
                    \/ (chk < Len(ft) /\ match.type = "suffix"))
             THEN Ret(FALSE # negative)
             ELSE IF ch.exc # "none" THEN Raise(ch.exc)
             ELSE Ret(_is_consonant(ch.val) # negative)
        [] scope = "exact" ->
             IF "value" \notin DOMAIN match THEN Raise("KeyError")
             ELSE Ret(_is_exact(match.value, ft, exact_start, exact_end,
                                negative))
        [] OTHER -> Ret(TRUE)

\* The inner loop of _process_rules from the k-th match on: Ret(matched).
RECURSIVE matches_loop(_, _, _, _, _)
matches_loop(matches, k, ft, c, ce) ==
  IF k > Len(matches) THEN Ret(k > 1)
  ELSE LET m == _process_match(matches[k], ft, c, ce)
       IN  IF m.exc # "none" THEN m
           ELSE IF ~m.val THEN Ret(FALSE)
           ELSE matches_loop(matches, k + 1, ft, c, ce)

\* The outer loop of _process_rules from the k-th rule on.
RECURSIVE rules_loop(_, _, _, _, _)
rules_loop(rules, k, ft, c, ce) ==
  IF k > Len(rules) THEN [exc |-> "none", isNone |-> TRUE, val |-> <<>>]
  ELSE LET matched == matches_loop(rules[k].matches, 1, ft, c, ce)
       IN  IF matched.exc # "none"
           THEN [exc |-> matched.exc, isNone |-> TRUE, val |-> <<>>]
           ELSE IF matched.val
           THEN [exc |-> "none", isNone |-> FALSE, val |-> rules[k].replace]
           ELSE rules_loop(rules, k + 1, ft, c, ce)

\* Mutant of _process_rules: the inner loop has no "break", so matched is
\* what the last predicate of the rule gave.
matches_loop_nobreak(matches, ft, c, ce) ==
  IF Len(matches) = 0 THEN Ret(FALSE)
  ELSE _process_match(matches[Len(matches)], ft, c, ce)

RECURSIVE rules_loop_nobreak(_, _, _, _, _)
rules_loop_nobreak(rules, k, ft, c, ce) ==
  IF k > Len(rules) THEN [exc |-> "none", isNone |-> TRUE, val |-> <<>>]
  ELSE LET matched == matches_loop_nobreak(rules[k].matches, ft, c, ce)
       IN  IF matched.exc # "none"
           THEN [exc |-> matched.exc, isNone |-> TRUE, val |-> <<>>]
           ELSE IF matched.val
           THEN [exc |-> "none", isNone |-> FALSE, val |-> rules[k].replace]
           ELSE rules_loop_nobreak(rules, k + 1, ft, c, ce)

_process_rules_nobreak(rules, ft, c, ce) ==
  IF Len(rules) = 0
  THEN [exc |-> "UnboundLocalError", isNone |-> TRUE, val |-> <<>>]
  ELSE rules_loop_nobreak(rules, 1, ft, c, ce)

\* Mutant of _process_rules: the rules are tried from the last to the first.
RECURSIVE rules_loop_reversed(_, _, _, _, _)
rules_loop_reversed(rules, k, ft, c, ce) ==
  IF k < 1 THEN [exc |-> "none", isNone |-> TRUE, val |-> <<>>]
  ELSE LET matched == matches_loop(rules[k].matches, 1, ft, c, ce)
       IN  IF matched.exc # "none"
           THEN [exc |-> matched.exc, isNone |-> TRUE, val |-> <<>>]
           ELSE IF matched.val
           THEN [exc |-> "none", isNone |-> FALSE, val |-> rules[k].replace]
           ELSE rules_loop_reversed(rules, k - 1, ft, c, ce)

_process_rules_reversed(rules, ft, c, ce) ==
  IF Len(rules) = 0
  THEN [exc |-> "UnboundLocalError", isNone |-> TRUE, val |-> <<>>]
  ELSE rules_loop_reversed(rules, Len(rules), ft, c, ce)

\* isNone: the function returned None; val: the string it returned
\* otherwise.  With no rule the local "matched" is never bound.
_process_rules(rules, ft, c, ce) ==
  IF Len(rules) = 0
  THEN [exc |-> "UnboundLocalError", isNone |-> TRUE, val |-> <<>>]
  ELSE rules_loop(rules, 1, ft, c, ce)

----------------------------------------------------------------------------
(* Transducer loop: parse *)

\* try: i.encode('utf-8') / except UnicodeDecodeError: uni_pass = False /
\* else: uni_pass = True.  Any other exception propagates.
uni_pass(i) ==
  IF encode(i) = "UnicodeDecodeError" THEN Ret(FALSE)
  ELSE IF encode(i) = "ok" THEN Ret(TRUE)
  ELSE Raise(encode(i))

\* match = {'matched': False}
NoMatch == [matched |-> FALSE]

\* if not uni_pass: cur_end = cur + 1; output.append(i)
pass_through(ft, c, out) ==
  [cur_end |-> c + 1, output |-> Append(out, <<ft[c + 1]>>)]

\* Mutant of to_process: the test "cur >= cur_end" is dropped.
to_process_always(c, ce, up) == up

\* elif cur >= cur_end and uni_pass:
to_process(c, ce, up) == c >= ce /\ up

\* Mutant of non_rule_hit: match["found"] is appended for
\* match["replaced"].
non_rule_hit_found(match, c, out) ==
  [cur_end |-> c + Len(match.found), output |-> Append(out, match.found)]

\* A non-rule pattern has matched.
non_rule_hit(match, c, out) ==
  [cur_end |-> c + Len(match.found), output |-> Append(out, match.replaced)]

\* A rule pattern has matched and _process_rules has returned.
rule_hit(match, replaced, c, out) ==
  [cur_end |-> c + Len(match.found),
   output |-> IF ~replaced.isNone THEN Append(out, replaced.val)
              ELSE Append(out, match.replaced)]

\* Mutant of fallback: "cur_end = cur" for "cur_end = cur + 1".
fallback_no_advance(ft, c, out) ==
  [cur_end |-> c, output |-> Append(out, <<ft[c + 1]>>)]

\* if not match["matched"]: cur_end = cur + 1; output.append(i)
fallback(ft, c, out) ==
  [cur_end |-> c + 1, output |-> Append(out, <<ft[c + 1]>>)]

\* Mutant of loop_body: _process_rules is given the raw text for
\* fixed_text.
loop_body_raw(ft, c, ce, out) ==
  LET i == ft[c + 1]
      up == uni_pass(i)
      nr == _match_non_rule_patterns(ft, c)
      r == _match_rule_patterns(ft, c)
      replaced == _process_rules(r.rules, text, c, c + Len(r.found))
      same == [cur_end |-> ce, output |-> out]
      Did(kind, consulted, match, exc, st) ==
        [kind |-> kind, consulted |-> consulted, match |-> match,
         exc |-> exc, cur_end |-> st.cur_end, output |-> st.output]
  IN  IF up.exc # "none" THEN Did("raise", {}, NoMatch, up.exc, same)
      ELSE IF ~up.val
      THEN Did("unencodable", {}, NoMatch, "none", pass_through(ft, c, out))
      ELSE IF to_process(c, ce, up.val)
      THEN IF nr.exc # "none"
           THEN Did("raise", {"non_rule"}, NoMatch, nr.exc, same)
           ELSE IF nr.matched
           THEN Did("non_rule", {"non_rule"}, nr, "none",
                    non_rule_hit(nr, c, out))
           ELSE IF r.exc # "none"
           THEN Did("raise", {"non_rule", "rule"}, nr, r.exc, same)
           ELSE IF r.matched
           THEN IF replaced.exc # "none"
                THEN Did("raise", {"non_rule", "rule", "rules"}, r,
                         replaced.exc, same)
                ELSE Did("rule", {"non_rule", "rule", "rules"}, r, "none",
                         rule_hit(r, replaced, c, out))
           ELSE Did("fallback", {"non_rule", "rule"}, r, "none",
                    fallback(ft, c, out))
      ELSE Did("skip", {}, NoMatch, "none", same)

\* One iteration of the loop at position c: the exception it raises if any,
\* the new cur_end and output, and what it did (kind, the matchers and
\* evaluator it called, the last value of the local "match").
loop_body(ft, c, ce, out) ==
  LET i == ft[c + 1]
      up == uni_pass(i)
      nr == _match_non_rule_patterns(ft, c)
      r == _match_rule_patterns(ft, c)
      replaced == _process_rules(r.rules, ft, c, c + Len(r.found))
      same == [cur_end |-> ce, output |-> out]
      Did(kind, consulted, match, exc, st) ==
        [kind |-> kind, consulted |-> consulted, match |-> match,
         exc |-> exc, cur_end |-> st.cur_end, output |-> st.output]
  IN  IF up.exc # "none" THEN Did("raise", {}, NoMatch, up.exc, same)
      ELSE IF ~up.val
      THEN Did("unencodable", {}, NoMatch, "none", pass_through(ft, c, out))
      ELSE IF to_process(c, ce, up.val)
      THEN IF nr.exc # "none"
           THEN Did("raise", {"non_rule"}, NoMatch, nr.exc, same)
           ELSE IF nr.matched
           THEN Did("non_rule", {"non_rule"}, nr, "none",
                    non_rule_hit(nr, c, out))
           ELSE IF r.exc # "none"
           THEN Did("raise", {"non_rule", "rule"}, nr, r.exc, same)
           ELSE IF r.matched
           THEN IF replaced.exc # "none"
                THEN Did("raise", {"non_rule", "rule", "rules"}, r,
                         replaced.exc, same)
                ELSE Did("rule", {"non_rule", "rule", "rules"}, r, "none",
                         rule_hit(r, replaced, c, out))
           ELSE Did("fallback", {"non_rule", "rule"}, r, "none",
                    fallback(ft, c, out))
      ELSE Did("skip", {}, NoMatch, "none", same)

\* Mutant of self_after_iteration: the iteration pops the first rule
\* pattern off self.RULE_PATTERNS.
self_after_iteration_pop(e) ==
  [e EXCEPT ![3] = IF Len(@) > 0 THEN Tail(@) ELSE @]

\* The attributes of self after a loop iteration: no statement of parse or
\* of the methods it calls assigns or mutates one.
self_after_iteration(e) == e

----------------------------------------------------------------------------
(* The engine as a state machine *)

\* The raw input of the usage the docstring of parse shows.
ami_banglay_gan_gai ==
  <<"a", "m", "i", " ", "b", "a", "n", "g", "l", "a", "y", " ",
    "g", "a", "n", " ", "g", "a", "i">>

\* Raw inputs that are words.
kolkata == <<"k", "o", "l", "k", "a", "t", "a">>

rrittu == <<"r", "r", "i", "t", "t", "u">>

Words ==
  {ami_banglay_gan_gai, kolkata, rrittu,
   <<"O", "I">>, <<"k", "O", "I">>, <<"b", "o", "o">>,
   <<"A", "a">>, <<"A", "m", "i">>, <<"a", "m", "i">>, <<"K">>,
   <<"r", "r", "r", "k">>, <<"k", "o", "u0060">>, <<"k", "o", "k">>}

\* The finds of the rule patterns of the vowels.
VowelFinds ==
  {<<"O", "I">>, <<"O", "U">>, <<"O">>, <<"r", "r", "i">>, <<"o", "o">>,
   <<"i">>, <<"I">>, <<"u">>, <<"U">>, <<"e", "e">>, <<"e">>}

\* Raw inputs with a vowel find after nothing, a consonant, a vowel, a
\* space, a backtick or a digit, and before nothing, a consonant, a
\* backtick or a vowel.
VowelInputs ==
  {b \o f \o a :
     b \in {<<>>, <<"k">>, <<"T">>, <<"a">>, <<" ">>, <<"u0060">>, <<"1">>},
     f \in VowelFinds,
     a \in {<<>>, <<"k">>, <<"u0060">>, <<"a">>}}

\* The raw inputs: every string over Alphabet up to MaxLen characters, the
\* find of every pattern of the table, the words and the vowel inputs.
Inputs ==
  (UNION {[1..n -> Alphabet] : n \in 0..MaxLen})
    \cup {data.PATTERNS[k].find : k \in 1..Len(data.PATTERNS)}
    \cup Words
    \cup VowelInputs

\* The raw inputs of the runs that remember an earlier call.
\* Raw inputs that differ from their normalized text, with that text.
CallWords ==
  {<<"A", "m", "i">>, <<"a", "m", "i">>, <<"K">>, <<"R", "A">>,
   <<"u0130">>, <<"i", "u0307">>}

CallInputs ==
  (UNION {[1..n -> CallAlphabet] : n \in 0..MaxCallLen}) \cup CallWords

NoStep ==
  [kind |-> "none", cur |-> 0, before |-> 0, consulted |-> {},
   match |-> NoMatch]

\* Nothing is remembered of earlier calls.
NoMemo == [on |-> FALSE, set |-> FALSE, text |-> <<>>, result |-> <<>>]

\* _process_match is not being called on its own.
NoPredicate == [type |-> "none", scope |-> "none"]

NoReturn == [exc |-> "none", val |-> "none"]

\* __init__
Constructed ==
  /\ heap = data.PATTERNS
  /\ PATTERNS = [k \in 1..Len(data.PATTERNS) |-> k]
  /\ NON_RULE_PATTERNS =
       SelectSeq([k \in 1..Len(data.PATTERNS) |-> k],
                 LAMBDA p : "rules" \notin DOMAIN data.PATTERNS[p])
  /\ RULE_PATTERNS =
       SelectSeq([k \in 1..Len(data.PATTERNS) |-> k],
                 LAMBDA p : "rules" \in DOMAIN data.PATTERNS[p])
  /\ VOWELS = data.VOWELS
  /\ CONSONANTS = data.CONSONANTS
  /\ CASESENSITIVES = data.CASESENSITIVES
  /\ DIGITS = data.DIGITS

\* No call is in progress.
Idle ==
  /\ text = <<>>
  /\ fixed_text = <<>>
  /\ output = <<>>
  /\ cur_end = 0
  /\ cur = 0
  /\ pc = "idle"
  /\ result = <<>>
  /\ last = NoStep
  /\ pmatch = NoPredicate
  /\ replace = NoReturn

Init == Constructed /\ Idle /\ memo = NoMemo

\* parse(x) is called: the statements before the loop.
Call(x) ==
  /\ pc = "idle"
  /\ x \in (IF memo.on THEN CallInputs ELSE Inputs)
  /\ text' = x
  /\ fixed_text' = _fix_string_case(_utf(x))
  /\ output' = <<>>
  /\ cur_end' = 0
  /\ cur' = 0
  /\ pc' = "loop"
  /\ result' = <<>>
  /\ last' = NoStep
  /\ UNCHANGED <<engine, memo, pmatch, replace>>

\* One iteration of "for cur, i in enumerate(fixed_text)".
Iterate ==
  /\ pc = "loop"
  /\ cur < Len(fixed_text)
  /\ LET b == loop_body(fixed_text, cur, cur_end, output)
         s == self_after_iteration(engine)
     IN  /\ last' = [kind |-> b.kind, cur |-> cur, before |-> cur_end,
                     consulted |-> b.consulted, match |-> b.match]
         /\ IF b.exc # "none"
            THEN /\ pc' = "raised"
                 /\ UNCHANGED <<cur, cur_end, output>>
            ELSE /\ pc' = "loop"
                 /\ cur' = cur + 1
                 /\ cur_end' = b.cur_end
                 /\ output' = b.output
         /\ PATTERNS' = s[1]
         /\ NON_RULE_PATTERNS' = s[2]
         /\ RULE_PATTERNS' = s[3]
         /\ VOWELS' = s[4]
         /\ CONSONANTS' = s[5]
         /\ CASESENSITIVES' = s[6]
         /\ DIGITS' = s[7]
         /\ heap' = s[8]
  /\ UNCHANGED <<text, fixed_text, result, memo, pmatch, replace>>

\* The loop is over: return ''.join(output).
Return ==
  /\ pc = "loop"
  /\ cur = Len(fixed_text)
  /\ result' = join(output)
  /\ pc' = "done"
  /\ UNCHANGED <<engine, text, fixed_text, output, cur_end, cur, last, memo,
                 pmatch, replace>>

\* The caller has taken the result (or the exception); the locals of the
\* call are gone and the engine can be called again.  When calls are
\* remembered, the call just completed may become the remembered one.
Discard ==
  /\ pc \in {"done", "raised"}
  /\ text' = <<>>
  /\ fixed_text' = <<>>
  /\ output' = <<>>
  /\ cur_end' = 0
  /\ cur' = 0
  /\ pc' = "idle"
  /\ result' = <<>>
  /\ last' = NoStep
  /\ memo' \in {memo} \cup
                 (IF memo.on /\ pc = "done"
                  THEN {[on |-> TRUE, set |-> TRUE, text |-> text,
                         result |-> result]}
                  ELSE {})
  /\ UNCHANGED <<engine, pmatch, replace>>

Next ==
  \/ \E x \in Inputs \cup CallInputs : Call(x)
  \/ Iterate
  \/ Return
  \/ Discard

Spec == Init /\ [][Next]_vars

\* Sequences of calls on one engine, an earlier call being remembered.
InitCalls == Constructed /\ Idle /\ memo = [NoMemo EXCEPT !.on = TRUE]

SpecCalls == InitCalls /\ [][Next]_vars

\* _process_match called on its own, as _process_rules calls it: on a
\* text, for a pattern found at [cur, cur_end), with one predicate.
MatchTexts == UNION {[1..n -> MatchAlphabet] : n \in 1..MaxMatchLen}

Scopes ==
  {"punctuation", "!punctuation", "vowel", "!vowel",
   "consonant", "!consonant"}

ExactValues == {<<"a">>, <<"k">>, <<"k", "a">>, <<"a", " ">>}

Predicates ==
  [type : {"prefix", "suffix"}, scope : Scopes]
    \cup [type : {"prefix", "suffix"}, scope : {"exact", "!exact"},
          value : ExactValues]

InitMatch ==
  /\ Constructed
  /\ memo = NoMemo
  /\ text = <<>>
  /\ output = <<>>
  /\ result = <<>>
  /\ last = NoStep
  /\ pc = "_process_match"
  /\ fixed_text \in MatchTexts
  /\ cur \in 0..(Len(fixed_text) - 1)
  /\ cur_end \in (cur + 1)..Len(fixed_text)
  /\ pmatch \in Predicates
  /\ replace = NoReturn

ProcessMatch ==
  /\ pc = "_process_match"
  /\ replace' = _process_match(pmatch, fixed_text, cur, cur_end)
  /\ pc' = "returned"
  /\ UNCHANGED <<engine, text, fixed_text, output, cur_end, cur, result,
                 last, memo, pmatch>>

NextMatch == ProcessMatch

SpecMatch == InitMatch /\ [][NextMatch]_vars

\* An engine of a class derived from AvroParser whose init_data builds
\* another table: a pattern with an empty find, an exact predicate with
\* no value, a predicate with a scope _process_match does not know, a
\* pattern whose list of rules is empty.
OtherTables ==
  { << [find |-> <<>>, replace |-> <<"u0981">>],
       [find |-> <<"k">>, replace |-> <<"u0995">>] >>,
    << [find |-> <<"k">>, replace |-> <<"u0995">>],
       [find |-> <<"a">>, replace |-> <<"u09BE">>,
        rules |-> << [matches |-> << [type |-> "prefix", scope |-> "exact"] >>,
                      replace |-> <<"u0986">>] >>] >>,
    << [find |-> <<"k">>, replace |-> <<"u0995">>],
       [find |-> <<"a">>, replace |-> <<"u09BE">>,
        rules |-> << [matches |-> << [type |-> "prefix", scope |-> "number"] >>,
                      replace |-> <<"u0986">>] >>] >>,
    << [find |-> <<"k">>, replace |-> <<"u0995">>],
       [find |-> <<"a">>, replace |-> <<"u09BE">>, rules |-> <<>>] >> }

\* __init__ has been entered and init_data has built self.data.
InitOther ==
  /\ heap \in OtherTables
  /\ PATTERNS = <<>>
  /\ NON_RULE_PATTERNS = <<>>
  /\ RULE_PATTERNS = <<>>
  /\ VOWELS = <<>>
  /\ CONSONANTS = <<>>
  /\ CASESENSITIVES = <<>>
  /\ DIGITS = <<>>
  /\ memo = NoMemo
  /\ text = <<>>
  /\ fixed_text = <<>>
  /\ output = <<>>
  /\ cur_end = 0
  /\ cur = 0
  /\ pc = "__init__"
  /\ result = <<>>
  /\ last = NoStep
  /\ pmatch = NoPredicate
  /\ replace = NoReturn

\* Mutant of Construct: RULE_PATTERNS is built with "if 'rules' not in p"
\* as NON_RULE_PATTERNS is.
Construct_notin ==
  /\ pc = "__init__"
  /\ PATTERNS' = [k \in 1..Len(heap) |-> k]
  /\ NON_RULE_PATTERNS' =
       SelectSeq([k \in 1..Len(heap) |-> k],
                 LAMBDA p : "rules" \notin DOMAIN heap[p])
  /\ RULE_PATTERNS' =
       SelectSeq([k \in 1..Len(heap) |-> k],
                 LAMBDA p : "rules" \notin DOMAIN heap[p])
  /\ VOWELS' = data.VOWELS
  /\ CONSONANTS' = data.CONSONANTS
  /\ CASESENSITIVES' = data.CASESENSITIVES
  /\ DIGITS' = data.DIGITS
  /\ pc' = "idle"
  /\ UNCHANGED <<heap, text, fixed_text, output, cur_end, cur, result, last,
                 memo, pmatch, replace>>

\* The assignments of __init__ after init_data.
Construct ==
  /\ pc = "__init__"
  /\ PATTERNS' = [k \in 1..Len(heap) |-> k]
  /\ NON_RULE_PATTERNS' =
       SelectSeq([k \in 1..Len(heap) |-> k],
                 LAMBDA p : "rules" \notin DOMAIN heap[p])
  /\ RULE_PATTERNS' =
       SelectSeq([k \in 1..Len(heap) |-> k],
                 LAMBDA p : "rules" \in DOMAIN heap[p])
  /\ VOWELS' = data.VOWELS
  /\ CONSONANTS' = data.CONSONANTS
  /\ CASESENSITIVES' = data.CASESENSITIVES
  /\ DIGITS' = data.DIGITS
  /\ pc' = "idle"
  /\ UNCHANGED <<heap, text, fixed_text, output, cur_end, cur, result, last,
                 memo, pmatch, replace>>

NextOther ==
  \/ Construct
  \/ Next

SpecOther == InitOther /\ [][NextOther]_vars

\* __init__ of AvroParser has been entered and init_data has built the
\* reference table.
InitNew ==
  /\ heap = data.PATTERNS
  /\ PATTERNS = <<>>
  /\ NON_RULE_PATTERNS = <<>>
  /\ RULE_PATTERNS = <<>>
  /\ VOWELS = <<>>
  /\ CONSONANTS = <<>>
  /\ CASESENSITIVES = <<>>
  /\ DIGITS = <<>>
  /\ memo = NoMemo
  /\ text = <<>>
  /\ fixed_text = <<>>
  /\ output = <<>>
  /\ cur_end = 0
  /\ cur = 0
  /\ pc = "__init__"
  /\ result = <<>>
  /\ last = NoStep
  /\ pmatch = NoPredicate
  /\ replace = NoReturn

SpecNew == InitNew /\ [][NextOther]_vars

----------------------------------------------------------------------------
(* Properties *)

\* Pattern p matches the text T at the 0-based position c.
MatchesAt(p, T, c) ==
  c + Len(p.find) <= Len(T) /\ SubSeq(T, c + 1, c + Len(p.find)) = p.find

\* The k-th pattern of a list of references.
Pat(PATS, k) == heap[PATS[k]]

\* The indices of the patterns of a table that match T at c.
Hits(PATS, T, c) == {k \in 1..Len(PATS) : MatchesAt(Pat(PATS, k), T, c)}

\* The least element of a non-empty set of numbers.
Least(S) == CHOOSE k \in S : \A j \in S : k <= j

\* The last iteration processed an unconsumed position and raised nothing.
Processed ==
  last.kind \notin {"none", "raise", "unencodable"} /\ last.cur >= last.before

\* The state is the one the last iteration left.
JustIterated == pc = "loop" /\ last.kind # "none" /\ cur = last.cur + 1

\* C1: non-rule precedence.  At every unconsumed position where some
\* non-rule pattern matches, the pattern applied is a non-rule pattern (its
\* replace is what was appended), whatever rule patterns match there too;
\* the rule table is consulted only when no non-rule pattern matches.
C1_NonRulePrecedence ==
  Processed =>
    /\ Hits(NON_RULE_PATTERNS, fixed_text, last.cur) # {} =>
          /\ last.kind = "non_rule"
          /\ "rule" \notin last.consulted
          /\ \E k \in Hits(NON_RULE_PATTERNS, fixed_text, last.cur) :
                /\ last.match.found = Pat(NON_RULE_PATTERNS, k).find
                /\ JustIterated =>
                      output[Len(output)] = Pat(NON_RULE_PATTERNS, k).replace
    /\ "rule" \in last.consulted =>
          Hits(NON_RULE_PATTERNS, fixed_text, last.cur) = {}

\* C1 witness: a non-rule pattern was applied where a rule pattern matches
\* as well.
C1_Witness ==
  /\ Processed
  /\ last.kind = "non_rule"
  /\ Hits(RULE_PATTERNS, fixed_text, last.cur) # {}

\* C2: greedy first-listed.  The pattern selected in a sub-table is the
\* earliest entry of that sub-table among those that match at cur, and
\* parse('...') is '...'.
C2_FirstListed ==
  /\ (Processed /\ last.kind = "non_rule") =>
        LET k == Least(Hits(NON_RULE_PATTERNS, fixed_text, last.cur))
        IN  /\ last.match.found = Pat(NON_RULE_PATTERNS, k).find
            /\ last.match.replaced = Pat(NON_RULE_PATTERNS, k).replace
  /\ (Processed /\ last.kind = "rule") =>
        LET k == Least(Hits(RULE_PATTERNS, fixed_text, last.cur))
        IN  /\ last.match.found = Pat(RULE_PATTERNS, k).find
            /\ last.match.replaced = Pat(RULE_PATTERNS, k).replace
            /\ last.match.rules = Pat(RULE_PATTERNS, k).rules
  /\ (pc = "done" /\ text = <<".", ".", ".">>) => result = <<".", ".", ".">>

\* C2 witness: the selected pattern was one of several entries of its
\* sub-table that match ('...' before '..' and '.').
C2_Witness ==
  /\ Processed
  /\ last.kind = "non_rule"
  /\ last.match.found = <<".", ".", ".">>
  /\ Cardinality(Hits(NON_RULE_PATTERNS, fixed_text, last.cur)) = 3

\* C3: longest prefix.  With the reference table, no pattern of either
\* sub-table that matches at cur is longer than the selected pattern.
C3_LongestPrefix ==
  (Processed /\ last.kind \in {"non_rule", "rule"}) =>
    \A k \in Hits(PATTERNS, fixed_text, last.cur) :
      Len(Pat(PATTERNS, k).find) <= Len(last.match.found)

\* C3 witness: the selected pattern is longer than another pattern that
\* matches at the same position.
C3_Witness ==
  /\ Processed
  /\ last.kind \in {"non_rule", "rule"}
  /\ \E k \in Hits(PATTERNS, fixed_text, last.cur) :
        Len(Pat(PATTERNS, k).find) < Len(last.match.found)

\* Every predicate of a rule holds for the span [c, ce) of T.
Holds(rule, T, c, ce) ==
  \A j \in 1..Len(rule.matches) : _process_match(rule.matches[j], T, c, ce).val

\* C4: rule selection.  When a rule pattern is selected at cur, exactly one
\* string is appended: the replace of the first rule, in list order, whose
\* predicates all hold, or the default replace of the pattern when no rule
\* has all its predicates holding.
C4_RuleSelection ==
  [][(pc = "loop" /\ pc' = "loop" /\ last'.kind = "rule") =>
       LET p == Pat(RULE_PATTERNS, Least(Hits(RULE_PATTERNS, fixed_text, cur)))
           H == {k \in 1..Len(p.rules) :
                   Holds(p.rules[k], fixed_text, cur, cur + Len(p.find))}
       IN  output' = Append(output, IF H = {} THEN p.replace
                                    ELSE p.rules[Least(H)].replace)]_vars

\* C4 witness: the first two rules of the selected pattern both hold, they
\* have different replacements, and the first one was emitted.
C4_Witness ==
  /\ JustIterated
  /\ last.kind = "rule"
  /\ Len(last.match.rules) >= 2
  /\ Holds(last.match.rules[1], fixed_text, last.cur, cur_end)
  /\ Holds(last.match.rules[2], fixed_text, last.cur, cur_end)
  /\ last.match.rules[1].replace # last.match.rules[2].replace
  /\ output[Len(output)] = last.match.rules[1].replace

C6_NoReprocessing ==
  [][/\ (pc = "loop" /\ cur < Len(fixed_text) /\ cur < cur_end) =>
          /\ last'.consulted = {}
          /\ output' = output
          /\ cur_end' = cur_end
          /\ pc' = "loop"
     /\ (pc = "loop" /\ pc' = "loop") =>
          /\ Len(output') >= Len(output)
          /\ SubSeq(output', 1, Len(output)) = output
          /\ cur_end' >= cur_end]_vars

\* C6 witness: a position inside the span of a selected pattern was
\* skipped.
C6_Witness ==
  /\ JustIterated
  /\ last.kind = "skip"
  /\ last.cur < last.before
  /\ cur_end = last.before
  /\ Len(output) >= 1

\* The characters of x can all be encoded as text.
Supported(x) == \A k \in 1..Len(x) : encode(x[k]) = "ok"

\* C7: totality.  For an input over the supported alphabet parse raises
\* nothing (no index is read outside the text), the loop never runs past
\* the end of the text (so it can iterate again or return), and parse('')
\* returns ''.
C7_Totality ==
  Supported(text) =>
    /\ pc # "raised"
    /\ last.kind # "raise"
    /\ pc = "loop" => cur <= Len(fixed_text)
    /\ (pc = "done" /\ text = <<>>) => result = <<>>

\* C7 witness: parse returned after evaluating the predicates of a rule
\* pattern that spans the whole text, so that the prefix check is before
\* the text and the suffix check after it.
C7_Witness ==
  /\ pc = "done"
  /\ Supported(text)
  /\ last.kind = "rule"
  /\ last.cur = 0
  /\ Len(last.match.found) = Len(fixed_text)
  /\ result # <<>>

FindChars ==
  UNION {{data.PATTERNS[k].find[j] : j \in 1..Len(data.PATTERNS[k].find)} :
           k \in 1..Len(data.PATTERNS)}

C10_ReturnsInput ==
  (pc = "done" /\ \A c \in 0..(Len(fixed_text) - 1) :
                    Hits(PATTERNS, fixed_text, c) = {}) =>
    result = text

\* C11: the normalized text has as many characters as the input, and at
\* each position the input character is kept if its lowercase is in
\* CASESENSITIVES and replaced by its lowercase otherwise.
C11_SameCount ==
  (pc # "idle") =>
    /\ Len(fixed_text) = Len(text)
    /\ \A k \in 1..Len(text) :
         <<fixed_text[k]>> = IF str_in(lower(text[k]), data.CASESENSITIVES)
                             THEN <<text[k]>>
                             ELSE lower(text[k])

\* The position a predicate checks is outside the text.
AtBoundary ==
  \/ pmatch.type = "prefix" /\ cur = 0
  \/ pmatch.type = "suffix" /\ cur_end = Len(fixed_text)

\* C12: at a boundary of the text punctuation holds and !punctuation
\* fails, vowel and consonant fail, !vowel and !consonant hold.
C12_Boundary ==
  (pc = "returned" /\ AtBoundary /\ pmatch.scope \in Scopes) =>
    replace = Ret(pmatch.scope \in {"punctuation", "!vowel", "!consonant"})

\* C12 witness: !punctuation was evaluated before the first character of a
\* text ending in a vowel, and failed.
C12_Witness ==
  /\ pc = "returned"
  /\ pmatch.type = "prefix"
  /\ pmatch.scope = "!punctuation"
  /\ cur = 0
  /\ fixed_text[Len(fixed_text)] = "a"
  /\ replace = Ret(FALSE)

\* The window of text an exact predicate compares with its value.
ExactStart == IF pmatch.type = "prefix" THEN cur - Len(pmatch.value)
                                        ELSE cur_end

ExactEnd == IF pmatch.type = "prefix" THEN cur
                                      ELSE cur_end + Len(pmatch.value)

WindowIsValue ==
  \A j \in 1..Len(pmatch.value) :
    /\ ExactStart + j \in 1..Len(fixed_text)
    /\ fixed_text[ExactStart + j] = pmatch.value[j]

\* The raw condition of an exact or !exact predicate.
ExactRaw ==
  /\ ExactStart >= 0
  /\ ExactEnd < Len(fixed_text)
  /\ WindowIsValue

\* C13: the raw condition of an exact predicate is that its window starts
\* at 0 or later, ends before the last character and holds the value; an
\* exact suffix predicate whose window ends at the end of the text fails
\* even if the window holds the value.
C13_ExactRaw ==
  (pc = "returned" /\ pmatch.scope \in {"exact", "!exact"}) =>
    /\ replace.exc = "none"
    /\ (replace.val # (pmatch.scope = "!exact")) = ExactRaw
    /\ (pmatch.scope = "exact" /\ pmatch.type = "suffix"
          /\ ExactEnd = Len(fixed_text)) => replace = Ret(FALSE)

\* C13 witness: an exact suffix predicate failed on a window that holds
\* its value and ends at the end of the text.
C13_Witness ==
  /\ pc = "returned"
  /\ pmatch.scope = "exact"
  /\ pmatch.type = "suffix"
  /\ ExactEnd = Len(fixed_text)
  /\ WindowIsValue
  /\ replace = Ret(FALSE)

\* The position a predicate checks, and whether it is inside the text.
Chk == IF pmatch.type = "prefix" THEN cur - 1 ELSE cur_end

ChkInside == Chk >= 0 /\ Chk < Len(fixed_text)

\* The scope of the predicate is written with a leading "!".
Negative ==
  pmatch.scope \in {"!punctuation", "!vowel", "!consonant", "!exact"}

\* The raw condition R of the predicate, before negation.
Raw ==
  CASE pmatch.scope \in {"punctuation", "!punctuation"} ->
         ~ChkInside \/ _is_punctuation(fixed_text[Chk + 1])
    [] pmatch.scope \in {"vowel", "!vowel"} ->
         ChkInside /\ _is_vowel(fixed_text[Chk + 1])
    [] pmatch.scope \in {"consonant", "!consonant"} ->
         ChkInside /\ _is_consonant(fixed_text[Chk + 1])
    [] pmatch.scope \in {"exact", "!exact"} -> ExactRaw

\* C14: a predicate holds iff its raw condition differs from its negation
\* flag: a non-negated one when R is true, a negated one when R is false.
C14_Negation ==
  (pc = "returned") => replace = Ret(Raw # Negative)

\* C14 witness: a negated predicate failed on a raw condition that is true
\* of a character of the text.
C14_Witness ==
  /\ pc = "returned"
  /\ Negative
  /\ ChkInside
  /\ Raw
  /\ replace = Ret(FALSE)

\* C15: an iteration on a character that cannot be encoded appends the
\* character unmodified, sets cur_end to cur + 1, consults no matcher and
\* leaves parse running; parse does not raise.
C15_EncodingRecovery ==
  [][(pc = "loop" /\ cur < Len(fixed_text)
        /\ encode(fixed_text[cur + 1]) # "ok") =>
       /\ pc' = "loop"
       /\ output' = Append(output, <<fixed_text[cur + 1]>>)
       /\ cur_end' = cur + 1
       /\ last'.consulted = {}]_vars

\* The scopes _process_match knows.
KnownScopes == Scopes \cup {"exact", "!exact"}

\* A predicate without the value its scope needs, or of an unknown scope.
BadPredicate(m) ==
  \/ m.scope \in {"exact", "!exact"} /\ "value" \notin DOMAIN m
  \/ m.scope \notin KnownScopes

\* The table has a pattern with an empty find or a bad predicate.
Malformed(table) ==
  \E k \in 1..Len(table) :
    \/ table[k].find = <<>>
    \/ /\ "rules" \in DOMAIN table[k]
       /\ \E r \in 1..Len(table[k].rules) :
            \E j \in 1..Len(table[k].rules[r].matches) :
              BadPredicate(table[k].rules[r].matches[j])

\* C16: on a malformed table construction fails: __init__ does not
\* complete, no engine is obtained and no parse runs.
C16_MalformedRejected ==
  Malformed(heap) => pc \in {"__init__", "raised in __init__"}

\* C17 as claimed: parse('ami banglay gan gai') returns the 19 characters
\* of the claim, in which the letter after "u09BE" of the second word is
\* written "u09AF" "u09BC" (YA and NUKTA).
C17_Scenario ==
  (pc = "done" /\ text = ami_banglay_gan_gai) =>
    result = <<"u0986", "u09AE", "u09BF", " ",
               "u09AC", "u09BE", "u0982", "u09B2", "u09BE", "u09AF", "u09BC", " ",
               "u0997", "u09BE", "u09A8", " ",
               "u0997", "u09BE", "u0987">>

\* C17 as amended: parse('ami banglay gan gai') returns these 18
\* characters, the 'y' after a vowel giving the one character "u09DF"
\* (YYA); word-initial 'a' gives "u0986", 'i' after a consonant "u09BF",
\* 'ng' "u0982", word-final 'i' after a vowel "u0987", spaces pass through.
C17_ScenarioYYA ==
  (pc = "done" /\ text = ami_banglay_gan_gai) =>
    result = <<"u0986", "u09AE", "u09BF", " ",
               "u09AC", "u09BE", "u0982", "u09B2", "u09BE", "u09DF", " ",
               "u0997", "u09BE", "u09A8", " ",
               "u0997", "u09BE", "u0987">>

\* C17 witness: parse('ami banglay gan gai') has returned.
C17_Witness ==
  /\ pc = "done"
  /\ text = ami_banglay_gan_gai
  /\ Len(result) = 18

\* The consonants of the classifier, in lowercase and in uppercase.
ConsonantLetters ==
  {"b", "c", "d", "f", "g", "h", "j", "k", "l", "m", "n", "p", "q", "r",
   "s", "t", "v", "w", "x", "y", "z",
   "B", "C", "D", "F", "G", "H", "J", "K", "L", "M", "N", "P", "Q", "R",
   "S", "T", "V", "W", "X", "Y", "Z"}

\* The dependent sign (the default replace) of a vowel find.
DependentSign(f) ==
  CASE f = <<"O", "I">> -> <<"u09C8">>
    [] f = <<"O", "U">> -> <<"u09CC">>
    [] f = <<"O">> -> <<"u09CB">>
    [] f = <<"r", "r", "i">> -> <<"u09C3">>
    [] f = <<"o", "o">> -> <<"u09C1">>
    [] f = <<"i">> -> <<"u09BF">>
    [] f = <<"I">> -> <<"u09C0">>
    [] f = <<"u">> -> <<"u09C1">>
    [] f = <<"U">> -> <<"u09C2">>
    [] f = <<"e", "e">> -> <<"u09C0">>
    [] f = <<"e">> -> <<"u09C7">>

\* The independent vowel (the replace of the rules) of a vowel find.
IndependentVowel(f) ==
  CASE f = <<"O", "I">> -> <<"u0990">>
    [] f = <<"O", "U">> -> <<"u0994">>
    [] f = <<"O">> -> <<"u0993">>
    [] f = <<"r", "r", "i">> -> <<"u098B">>
    [] f = <<"o", "o">> -> <<"u0989">>
    [] f = <<"i">> -> <<"u0987">>
    [] f = <<"I">> -> <<"u0988">>
    [] f = <<"u">> -> <<"u0989">>
    [] f = <<"U">> -> <<"u098A">>
    [] f = <<"e", "e">> -> <<"u0988">>
    [] f = <<"e">> -> <<"u098F">>

\* C18: when the rule pattern of a vowel is selected at cur, the dependent
\* sign is emitted if the character before cur is a consonant and the
\* independent vowel otherwise (cur = 0 included); parse('OI'),
\* parse('kOI'), parse('boo') and parse('rrittu') return what the claim
\* says.
C18_VowelForm ==
  /\ [][(pc = "loop" /\ pc' = "loop" /\ last'.kind = "rule"
           /\ last'.match.found \in VowelFinds) =>
          output' = Append(output,
                           IF cur > 0 /\ fixed_text[cur] \in ConsonantLetters
                           THEN DependentSign(last'.match.found)
                           ELSE IndependentVowel(last'.match.found))]_vars
  /\ [](pc = "done" =>
          /\ text = <<"O", "I">> => result = <<"u0990">>
          /\ text = <<"k", "O", "I">> => result = <<"u0995", "u09C8">>
          /\ text = <<"b", "o", "o">> => result = <<"u09AC", "u09C1">>
          /\ text = rrittu =>
               result = <<"u098B", "u09A4", "u09CD", "u09A4", "u09C1">>)

\* C18 witness: the pattern 'oo' was selected after a consonant kept in
\* uppercase and before a vowel, and its dependent sign was emitted.
C18_Witness ==
  /\ JustIterated
  /\ last.kind = "rule"
  /\ last.match.found = <<"o", "o">>
  /\ last.cur = 1
  /\ fixed_text = <<"T", "o", "o", "a">>
  /\ output[Len(output)] = <<"u09C1">>

\* C19 as claimed: parse('kolkata') returns the six characters
\* "u0995" "u09B2" "u0995" "u09BE" "u09A4" "u09BE".
C19_Scenario ==
  (pc = "done" /\ text = kolkata) =>
    result = <<"u0995", "u09B2", "u0995", "u09BE", "u09A4", "u09BE">>

\* C19 as amended: parse('kolkata') returns seven characters, the pattern
\* 'lk' giving the conjunct "u09B2" "u09CD" "u0995".
C19_ScenarioConjunct ==
  (pc = "done" /\ text = kolkata) =>
    result = <<"u0995", "u09B2", "u09CD", "u0995", "u09BE", "u09A4", "u09BE">>

\* C19 witness: parse('kolkata') has returned, 'lk' having been replaced
\* as one pattern.
C19_Witness ==
  /\ pc = "done"
  /\ text = kolkata
  /\ output[3] = <<"u09B2", "u09CD", "u0995">>

\* The string has no backtick.
NoBacktick(s) == \A j \in 1..Len(s) : s[j] # "u0060"

\* C20: a backtick is never emitted: no appended string and no result has
\* one; a backtick met at an unconsumed position is consumed by a non-rule
\* pattern; parse of a lone backtick returns the empty string; parse('a`')
\* returns "u09BE", the non-rule pattern 'a`' consuming both characters.
C20_Backtick ==
  /\ \A k \in 1..Len(output) : NoBacktick(output[k])
  /\ NoBacktick(result)
  /\ (JustIterated /\ Processed /\ fixed_text[last.cur + 1] = "u0060") =>
       /\ last.kind = "non_rule"
       /\ cur_end > last.cur
  /\ (pc = "done" /\ text = <<"u0060">>) => result = <<>>
  /\ (JustIterated /\ last.cur = 0 /\ text = <<"a", "u0060">>) =>
       /\ last.kind = "non_rule"
       /\ last.match.found = <<"a", "u0060">>
       /\ cur_end = 2
  /\ (pc = "done" /\ text = <<"a", "u0060">>) =>
       /\ output = << <<"u09BE">> >>
       /\ result = <<"u09BE">>

\* C20 witness: parse('a`') has returned after one replacement.
C20_Witness ==
  /\ pc = "done"
  /\ text = <<"a", "u0060">>
  /\ Len(output) = 1
  /\ result = <<"u09BE">>

\* The number of positions of the list q that hold the reference x.
Count(q, x) == Cardinality({i \in 1..Len(q) : q[i] = x})

\* The position in PATTERNS of a reference PATTERNS holds once.
PosIn(q, x) == CHOOSE i \in 1..Len(q) : q[i] = x

\* The references of the list q are in the order PATTERNS has them.
InOrderOfPATTERNS(q) ==
  \A i \in 1..(Len(q) - 1) :
    PosIn(PATTERNS, q[i]) < PosIn(PATTERNS, q[i + 1])

\* C21: once constructed every pattern of PATTERNS is in exactly one of
\* NON_RULE_PATTERNS and RULE_PATTERNS, in RULE_PATTERNS iff it has the
\* key 'rules'; the two lists hold nothing else, nothing twice, and list
\* their patterns in the relative order of PATTERNS.
C21_TableSplit ==
  (pc = "idle") =>
    /\ \A k \in 1..Len(PATTERNS) :
         /\ Count(PATTERNS, PATTERNS[k]) = 1
         /\ Count(NON_RULE_PATTERNS, PATTERNS[k])
              + Count(RULE_PATTERNS, PATTERNS[k]) = 1
         /\ Count(RULE_PATTERNS, PATTERNS[k]) = 1
              <=> "rules" \in DOMAIN deref(PATTERNS[k])
    /\ Len(NON_RULE_PATTERNS) + Len(RULE_PATTERNS) = Len(PATTERNS)
    /\ InOrderOfPATTERNS(NON_RULE_PATTERNS)
    /\ InOrderOfPATTERNS(RULE_PATTERNS)

\* C21 witness: the engine of the reference table is constructed, with
\* patterns of both kinds interleaved in PATTERNS.
C21_Witness ==
  /\ pc = "idle"
  /\ memo = NoMemo
  /\ Len(PATTERNS) = 289
  /\ Len(RULE_PATTERNS) = 20
  /\ Len(NON_RULE_PATTERNS) = 269
  /\ \E i \in 1..Len(RULE_PATTERNS), j \in 1..Len(NON_RULE_PATTERNS) :
       RULE_PATTERNS[i] < NON_RULE_PATTERNS[j]

\* The vowels of the classifier, in lowercase and in uppercase.
VowelLetters == {"a", "e", "i", "o", "u", "A", "E", "I", "O", "U"}

\* The predicate m, read on the string T for a pattern found at [c, ce).
PredOn(m, T, c, ce) ==
  LET chk == IF m.type = "prefix" THEN c - 1 ELSE ce
      inside == chk >= 0 /\ chk < Len(T)
      start == IF m.type = "prefix" THEN c - Len(m.value) ELSE ce
      end == IF m.type = "prefix" THEN c ELSE ce + Len(m.value)
      R == CASE m.scope \in {"punctuation", "!punctuation"} ->
                  ~inside \/ T[chk + 1] \notin VowelLetters \cup ConsonantLetters
             [] m.scope \in {"vowel", "!vowel"} ->
                  inside /\ T[chk + 1] \in VowelLetters
             [] m.scope \in {"consonant", "!consonant"} ->
                  inside /\ T[chk + 1] \in ConsonantLetters
             [] m.scope \in {"exact", "!exact"} ->
                  /\ start >= 0
                  /\ end < Len(T)
                  /\ \A j \in 1..Len(m.value) : T[start + j] = m.value[j]
  IN  R # (m.scope \in {"!punctuation", "!vowel", "!consonant", "!exact"})

\* The rules of the list whose predicates all hold when read on T.
FiresOn(rules, T, c, ce) ==
  {k \in 1..Len(rules) :
     \A j \in 1..Len(rules[k].matches) : PredOn(rules[k].matches[j], T, c, ce)}

\* What a rule pattern found at [c, ce) emits when its predicates are read
\* on T.
EmitsOn(m, T, c, ce) ==
  IF FiresOn(m.rules, T, c, ce) = {} THEN m.replaced
  ELSE m.rules[Least(FiresOn(m.rules, T, c, ce))].replace

\* C22: the predicates of a selected rule pattern are read on the
\* normalized text, also where its characters were consumed by an earlier
\* match and emitted as something else or as nothing; parse('a`a') returns
\* "u09BE" "u0986".
C22_ContextOnT ==
  /\ [][(pc = "loop" /\ pc' = "loop" /\ last'.kind = "rule") =>
          output' = Append(output,
                           EmitsOn(last'.match, fixed_text, cur, cur_end'))]_vars
  /\ [](( pc = "done" /\ text = <<"a", "u0060", "a">>) =>
          result = <<"u09BE", "u0986">>)

\* C22 witness: the rule pattern 'a' was selected after a character the raw
\* input has in another case and the output has as another character, and
\* what it emitted is not what its rules give when read on the raw input.
C22_Witness ==
  /\ JustIterated
  /\ last.kind = "rule"
  /\ last.cur = 1
  /\ text = <<"A", "a">>
  /\ output = << <<"u0986">>, <<"u0986">> >>
  /\ EmitsOn(last.match, text, 1, 2) # <<"u0986">>

\* C23: _process_rules does not fail on a list of well-formed rules, the
\* empty list included; on the empty list it returns None and parse
\* appends the default replace of the pattern.
C23_RulesTotal ==
  ("rules" \in last.consulted /\ ~Malformed(heap)) =>
    /\ pc # "raised"
    /\ last.kind = "rule"
    /\ (JustIterated /\ last.match.rules = <<>>) =>
         output[Len(output)] = last.match.replaced

\* The predicate is a suffix !exact whose window, for a pattern ending at
\* ce, ends at the end of T.
EndExact(m, T, ce) ==
  m.type = "suffix" /\ m.scope = "!exact" /\ ce + Len(m.value) = Len(T)

\* The rules without the predicates that are EndExact.
WithoutEndExact(rules, T, ce) ==
  [k \in 1..Len(rules) |->
     [rules[k] EXCEPT
        !.matches = SelectSeq(@, LAMBDA m : ~EndExact(m, T, ce))]]

\* C24: a suffix !exact predicate whose window ends at the end of the text
\* holds whatever the window holds: a selected rule pattern emits what it
\* would emit without such predicates.  In 'rrr' the pattern 'rr' at cur 0
\* passes its suffix !exact 'r' before the last 'r' and its first rule
\* fires; in 'rrrk' the same predicate fails and the default is emitted.
C24_NegatedExactAtEnd ==
  /\ (JustIterated /\ last.kind = "rule") =>
       output[Len(output)] =
         EmitsOn([last.match EXCEPT
                    !.rules = WithoutEndExact(@, fixed_text, cur_end)],
                 fixed_text, last.cur, cur_end)
  /\ (JustIterated /\ last.cur = 0 /\ text = <<"r", "r", "r">>) =>
       /\ last.kind = "rule"
       /\ last.match.found = <<"r", "r">>
       /\ output = << <<"u09B0", "u09CD">> >>
  /\ (JustIterated /\ last.cur = 0 /\ text = <<"r", "r", "r", "k">>) =>
       /\ last.kind = "rule"
       /\ last.match.found = <<"r", "r">>
       /\ output = << <<"u09B0", "u09B0">> >>

\* C24 witness: in 'rrr' the first rule of 'rr' fired at cur 0, its suffix
\* !exact 'r' having the last 'r' as its window.
C24_Witness ==
  /\ JustIterated
  /\ last.cur = 0
  /\ fixed_text = <<"r", "r", "r">>
  /\ EndExact(last.match.rules[1].matches[3], fixed_text, cur_end)
  /\ fixed_text[3] = last.match.rules[1].matches[3].value[1]
  /\ output[1] = last.match.rules[1].replace

\* The entries of the table whose find is 'Sc', and the later of the two.
ScEntries == {x \in DOMAIN heap : deref(x).find = <<"S", "c">>}
SecondSc == CHOOSE x \in ScEntries : \A y \in ScEntries : PosIn(PATTERNS, y) <= PosIn(PATTERNS, x)

\* The non-rule table without the second 'Sc' entry.
WithoutSecondSc ==
  LET second == SecondSc
  IN  SelectSeq(NON_RULE_PATTERNS, LAMBDA x : x # second)

\* C25: the second 'Sc' entry is never the pattern the matcher selects, and
\* the matcher selects the same pattern, or none, on the non-rule table
\* without that entry, so that every iteration appends the same string;
\* parse('Sc') returns the replace of the first entry.
C25_SecondScUnreachable ==
  /\ (JustIterated /\ "non_rule" \in last.consulted) =>
       LET pattern == _exact_find_in_pattern(fixed_text, last.cur,
                                             NON_RULE_PATTERNS)
           table == WithoutSecondSc
           without == _exact_find_in_pattern(fixed_text, last.cur, table)
       IN  /\ Len(table) = Len(NON_RULE_PATTERNS) - 1
           /\ (Len(pattern) > 0) <=> (Len(without) > 0)
           /\ (Len(pattern) > 0) =>
                /\ pattern[1] # SecondSc
                /\ pattern[1] = without[1]
                /\ (last.kind = "non_rule") =>
                     output[Len(output)] = deref(without[1]).replace
  /\ (pc = "done" /\ text = <<"S", "c">>) =>
       result = <<"u09B6", "u09CD", "u099A">>

\* C25 witness: 'Sc' was selected at cur 0 of the input 'Sc', both entries
\* matching there, and the selected one is the first.
C25_Witness ==
  /\ JustIterated
  /\ last.kind = "non_rule"
  /\ text = <<"S", "c">>
  /\ last.cur = 0
  /\ Cardinality(ScEntries) = 2
  /\ LET pattern == _exact_find_in_pattern(fixed_text, 0, NON_RULE_PATTERNS)
     IN  /\ Len(pattern) >= 2
         /\ pattern[2] = SecondSc
         /\ deref(pattern[1]) = deref(pattern[2])

\* C26: termination.  A call of parse on an input of length N never raises,
\* has made at most N iterations of its loop while it runs (cur counts the
\* iterations made), and has made exactly N when it returns; what it
\* returns is the concatenation of output.
C26_Termination ==
  /\ pc # "raised"
  /\ (pc = "loop") => cur <= Len(text)
  /\ (pc = "done") => (cur = Len(text) /\ result = join(output))

\* C27: cursor invariant.  cur_end stays within 0..len(T) and never
\* decreases; an iteration either is inside the last span and changes
\* nothing, or is at the position where the last span ended, and then its
\* span [cur, cur_end') is not empty and exactly one string is appended for
\* it; when the loop has ended on a non-empty text cur_end is len(T), and
\* what is returned is the concatenation of the appended strings in order.
C27_CursorInvariant ==
  /\ [](/\ 0 <= cur_end
        /\ cur_end <= Len(fixed_text)
        /\ (pc = "loop") => cur <= cur_end
        /\ (pc \in {"loop", "done"} /\ cur = Len(fixed_text)
              /\ fixed_text # <<>>) => cur_end = Len(fixed_text)
        /\ (pc = "done") => result = join(output))
  /\ [][(pc = "loop" /\ pc' = "loop") =>
          /\ cur_end' >= cur_end
          /\ IF cur = cur_end
             THEN /\ cur_end' > cur
                  /\ Len(output') = Len(output) + 1
                  /\ SubSeq(output', 1, Len(output)) = output
             ELSE /\ cur_end' = cur_end
                  /\ output' = output]_vars

\* C27 witness: parse returned for a text of four positions covered by
\* three spans, the first of two positions.
C27_Witness ==
  /\ pc = "done"
  /\ fixed_text = <<"r", "r", "r", "k">>
  /\ cur_end = 4
  /\ Len(output) = 3
  /\ Len(output[1]) = 2
  /\ result = output[1] \o output[2] \o output[3]

\* The finds of the rule patterns that have a non-rule pattern '<find>`'.
BacktickFinds == VowelFinds \cup {<<"o">>, <<"a">>}

\* The predicate is a suffix !exact '`'.
NotBeforeBacktick(m) ==
  m.type = "suffix" /\ m.scope = "!exact" /\ m.value = <<"u0060">>

\* C28: when one of the rule patterns OI, OU, O, rri, oo, o, a, i, I, u, U,
\* ee, e is selected, the character at cur_end is not a backtick; where
\* such a find is followed by a backtick at an unconsumed position, a
\* non-rule pattern is selected; and every suffix !exact '`' predicate of
\* the rules of a selected rule pattern holds.
C28_BacktickShadowsRules ==
  /\ (JustIterated /\ last.kind = "rule"
        /\ last.match.found \in BacktickFinds /\ cur_end < Len(fixed_text)) =>
       fixed_text[cur_end + 1] # "u0060"
  /\ (JustIterated /\ Processed
        /\ \E f \in BacktickFinds :
             /\ last.cur + Len(f) < Len(fixed_text)
             /\ slice(fixed_text, last.cur, last.cur + Len(f) + 1)
                  = f \o <<"u0060">>) =>
       /\ last.kind = "non_rule"
       /\ last.match.found[Len(last.match.found)] = "u0060"
  /\ (JustIterated /\ last.kind = "rule") =>
       \A k \in 1..Len(last.match.rules) :
         \A j \in 1..Len(last.match.rules[k].matches) :
           NotBeforeBacktick(last.match.rules[k].matches[j]) =>
             _process_match(last.match.rules[k].matches[j], fixed_text,
                            last.cur, cur_end) = Ret(TRUE)

\* C28 witness: the rule pattern 'i' was selected between two consonants;
\* its rules have a suffix !exact '`' predicate, whose window is the
\* consonant after it.
C28_Witness ==
  /\ JustIterated
  /\ last.kind = "rule"
  /\ fixed_text = <<"k", "i", "k">>
  /\ last.match.found = <<"i">>
  /\ cur_end = 2
  /\ \E k \in 1..Len(last.match.rules) :
       \E j \in 1..Len(last.match.rules[k].matches) :
         NotBeforeBacktick(last.match.rules[k].matches[j])

\* C29: _fix_string_case is idempotent (the normalized text of a call is its
\* own normalized text), and a call returns what an earlier call returned
\* whose input was the normalized text of this one, or whose normalized
\* text is the input of this one; parse('Ami') and parse('ami') return the
\* same string, and so do parse('K') and parse('k').
C29_CaseInsensitive ==
  /\ (pc # "idle") =>
       /\ fixed_text = _fix_string_case(text)
       /\ _fix_string_case(fixed_text) = fixed_text
  /\ (memo.set /\ pc = "done"
        /\ (\/ memo.text = _fix_string_case(text)
            \/ text = _fix_string_case(memo.text))) =>
       result = memo.result
  /\ (pc = "done" /\ text \in {<<"A", "m", "i">>, <<"a", "m", "i">>}) =>
       result = <<"u0986", "u09AE", "u09BF">>
  /\ (pc = "done" /\ text \in {<<"K">>, <<"k">>}) => result = <<"u0995">>

\* C29 witness: parse('ami') returned what the remembered parse('Ami')
\* returned.
C29_Witness ==
  /\ memo.set
  /\ pc = "done"
  /\ memo.text = <<"A", "m", "i">>
  /\ text = <<"a", "m", "i">>
  /\ text = _fix_string_case(memo.text)
  /\ result = memo.result
  /\ result # text

\* The character is the uppercase form of a letter that is not in
\* CASESENSITIVES.
UpperInsensitive(char) ==
  lower(char) # <<char>> /\ ~str_in(lower(char), CASESENSITIVES)

\* C30: the normalized text has no uppercase form of a letter outside
\* CASESENSITIVES, and no pattern whose find has one is ever selected, so
\* 'AZ' and 'A`' never are; on the inputs 'AZ' and 'A`' the patterns 'aZ'
\* and 'a`' are selected at cur 0 and consume both characters.
C30_UppercaseUnreachable ==
  /\ \A k \in 1..Len(fixed_text) : ~UpperInsensitive(fixed_text[k])
  /\ (JustIterated /\ last.kind \in {"non_rule", "rule"}) =>
       /\ last.match.found \notin {<<"A", "Z">>, <<"A", "u0060">>}
       /\ \A k \in 1..Len(last.match.found) :
            ~UpperInsensitive(last.match.found[k])
  /\ (JustIterated /\ last.cur = 0 /\ text = <<"A", "Z">>) =>
       /\ last.kind = "non_rule"
       /\ last.match.found = <<"a", "Z">>
       /\ cur_end = 2
       /\ output = << <<"u0985", "u09CD", "u09AF", "u09BE">> >>
  /\ (JustIterated /\ last.cur = 0 /\ text = <<"A", "u0060">>) =>
       /\ last.kind = "non_rule"
       /\ last.match.found = <<"a", "u0060">>
       /\ cur_end = 2
       /\ output = << <<"u09BE">> >>

\* C30 witness: on the input 'AZ' the pattern 'aZ' was selected, the table
\* holding a pattern whose find is the input itself.
C30_Witness ==
  /\ JustIterated
  /\ text = <<"A", "Z">>
  /\ fixed_text = <<"a", "Z">>
  /\ last.kind = "non_rule"
  /\ last.match.found = fixed_text
  /\ \E k \in 1..Len(NON_RULE_PATTERNS) : Pat(NON_RULE_PATTERNS, k).find = text

====
